---- MODULE Spec2Model ----
(***************************************************************************)
(* A model of toolbelt::PayloadBuffer (toolbelt/payload_buffer.h and its   *)
(* implementation file): an offset-addressed heap inside one flat region.  *)
(*                                                                         *)
(* The region is modelled as an array of 32-bit words (every structure of  *)
(* the allocator is 4-byte aligned for the alignments used here, 4 and 8). *)
(* A word is kept as its int32 bit pattern, so a value with bit 31 set is  *)
(* a negative number.  Native pointers are byte offsets from the base of   *)
(* the region; the null pointer is 0.  The target is LP64:                 *)
(* size_t and native pointers are 8 bytes wide.                            *)
(***************************************************************************)
EXTENDS Integers, Sequences, FiniteSets, TLC

VARIABLES
  mem,      \* the region: word index -> int32 (header + arena)
  blocks,   \* ghost: payload offsets of the live free-list-tier blocks
  held,     \* payload offsets the client holds (returned and not yet freed)
  fault,    \* "none", or how the last call left defined behaviour
  stale,    \* ghost: a pointer into an abandoned region was dereferenced
  last,     \* ghost: the last call, its arguments and what it saw
  io        \* the file descriptors, pipes and coroutines of the I/O classes

vars == <<mem, blocks, held, fault, stale, last, io>>

\* io of a program that uses no file descriptor
NoIO == <<>>

---------------------------------------------------------------------------
(* Bounds of the model.                                                    *)

MaxFullSize == 2048     \* a region is never grown beyond this many bytes

---------------------------------------------------------------------------
(* 32-bit words.                                                           *)

MaxInt32 == 2147483647
MinInt32 == (-2147483647) - 1

\* uint32 addition, on int32 bit patterns (wraps modulo 2^32).
Add32(a, b) ==
  IF a >= 0 /\ b >= 0 /\ a > MaxInt32 - b
    THEN (a - MaxInt32 - 1) + (b - MaxInt32 - 1)
    ELSE IF a < 0 /\ b < 0 /\ a < MinInt32 - b
      THEN (a + MaxInt32 + 1) + (b + MaxInt32 + 1)
      ELSE a + b

\* uint32 subtraction, on int32 bit patterns.
Sub32(a, b) ==
  IF a >= 0 /\ b < 0 /\ a > MaxInt32 + b
    THEN (a - MaxInt32 - 1) - (b + MaxInt32 + 1)
    ELSE IF a < 0 /\ b > 0 /\ a < MinInt32 + b
      THEN (a + MaxInt32 + 1) - (b - MaxInt32 - 1)
      ELSE a - b

\* unsigned comparisons of two words.
ULt(a, b) == IF (a >= 0) = (b >= 0) THEN a < b ELSE b < 0
UGe(a, b) == ~ULt(a, b)
UGt(a, b) == ULt(b, a)

\* pointer + uint32 (64-bit arithmetic); -1 is an address outside any region.
PAdd(a, w) == IF a < 0 \/ w < 0 \/ a > MaxInt32 - w THEN -1 ELSE a + w

\* Let([x \in {e} |-> body]) is body with x bound to the value of e.
Let(f) == f[CHOOSE x \in DOMAIN f : TRUE]

---------------------------------------------------------------------------
(* Program constants.                                                      *)

kFixedBufferMagic == -436801084      \* 0xe5f6f1c4
kMovableBufferMagic == -973671996    \* 0xc5f6f1c4
kHeaderSize == 40                    \* sizeof(PayloadBuffer)
kSizeofSizeT == 8                    \* sizeof(size_t), size of a Resizer pointer
kSizeofU32 == 4                      \* sizeof(uint32_t), sizeof(BufferOffset)
kFreeBlockHeaderSize == 8            \* sizeof(FreeBlockHeader)

\* byte offsets of the header fields
kOffMagic == 0
kOffMessage == 4
kOffHwm == 8
kOffFullSize == 12
kOffFreeList == 16
kOffMetadata == 20
kOffBitmaps == 24

Junk == -623191334                   \* 0xdadadada: memory nobody has written
ResizerHandle == 1                   \* the Resizer pointer stored after the header

---------------------------------------------------------------------------
(* The state a call works on.  A call threads a record                     *)
(*   mem    the current region                                             *)
(*   blocks the ghost set of live free-list-tier blocks                    *)
(*   fault  "none", "wild" (access outside the region or misaligned),      *)
(*          "null" (write or read through a null pointer), "hang" (a walk  *)
(*          of the free list that does not end), "cap" (model bound hit)   *)
(*   gen    how many times the resizer has moved the region in this call   *)
(*   snaps  snaps[k+1] is the abandoned region of generation k             *)
(*   stale  ghost, see above                                               *)
(* through the operators below; an action copies it back to the variables. *)

InMem(s, a) == a >= 0 /\ a % 4 = 0 /\ (a \div 4) \in DOMAIN s.mem

\* read of the word at byte offset a of the current region
R(s, a) == IF InMem(s, a) THEN s.mem[a \div 4] ELSE Junk

Fault(s, f) == IF s.fault = "none" THEN [s EXCEPT !.fault = f] ELSE s

\* a read through a raw pointer: faults when it leaves the region
Touch(s, a) ==
  IF a = 0 THEN Fault(s, "null") ELSE IF InMem(s, a) THEN s ELSE Fault(s, "wild")

\* write of the word at byte offset a of the current region
W(s, a, v) ==
  IF s.fault # "none" THEN s
  ELSE IF a = 0 THEN Fault(s, "null")
  ELSE IF InMem(s, a) THEN [s EXCEPT !.mem[a \div 4] = v]
  ELSE Fault(s, "wild")

\* A pointer of generation g: into the current region when g = s.gen, into an
\* abandoned one otherwise.
Cur(s, g) == g = s.gen

PR(s, g, a) ==
  IF Cur(s, g) THEN R(s, a)
  ELSE IF a >= 0 /\ a % 4 = 0 /\ (a \div 4) \in DOMAIN s.snaps[g + 1]
    THEN s.snaps[g + 1][a \div 4] ELSE Junk

PTouch(s, g, a) ==
  IF Cur(s, g) THEN Touch(s, a) ELSE [s EXCEPT !.stale = TRUE]

PW(s, g, a, v) ==
  IF Cur(s, g) THEN W(s, a, v)
  ELSE IF s.fault # "none" THEN s
  ELSE IF a >= 0 /\ a % 4 = 0 /\ (a \div 4) \in DOMAIN s.snaps[g + 1]
    THEN [s EXCEPT !.snaps[g + 1][a \div 4] = v, !.stale = TRUE]
    ELSE [s EXCEPT !.stale = TRUE]

IsValidMagic(s) == R(s, kOffMagic) \in {kFixedBufferMagic, kMovableBufferMagic}

full_size(s) == R(s, kOffFullSize)
hwm(s) == R(s, kOffHwm)
free_list(s) == R(s, kOffFreeList)

\* IsValidAddress with size = 0: this <= addr < this + full_size
IsValidAddress(s, a) == a >= 0 /\ ULt(a, full_size(s))

ToAddress(s, off) ==
  IF off = 0 THEN 0
  ELSE IF ~IsValidMagic(s) THEN 0
  ELSE IF ~IsValidAddress(s, off) THEN 0
  ELSE off

\* ToOffset of a pointer of generation g: an address in an abandoned region is
\* outside [this, this + full_size) and maps to 0.
ToOffsetG(s, g, a) ==
  IF a = 0 THEN 0
  ELSE IF ~IsValidMagic(s) THEN 0
  ELSE IF ~Cur(s, g) \/ ~IsValidAddress(s, a) THEN 0
  ELSE a

ToOffset(s, a) == ToOffsetG(s, s.gen, a)

FreeList(s) == ToAddress(s, free_list(s))

UpdateHWM(s, off) == IF UGt(off, hwm(s)) THEN W(s, kOffHwm, off) ELSE s

\* a size that is taken as it is
NoAlign(n, alignment) == n

AlignSize(n, alignment) == ((n + (alignment - 1)) \div alignment) * alignment

\* The constructors: the header, then InitFreeList, then SetResizer.
InitFreeList(s) ==
  LET movable == R(s, kOffMagic) = kMovableBufferMagic
      header_size == IF movable THEN kHeaderSize + kSizeofSizeT ELSE kHeaderSize
      f == header_size
  IN Let([s1 \in {W(s, f, full_size(s) - header_size)} |->
     Let([s2 \in {W(s1, f + 4, 0)} |->
     Let([s3 \in {W(s2, kOffFreeList, ToOffset(s2, f))} |->
     W(s3, kOffHwm, free_list(s3))])])])

NewBuffer(size, movable) ==
  LET m0 == [i \in 0 .. (size \div 4) - 1 |->
               CASE i = 0 -> IF movable THEN kMovableBufferMagic ELSE kFixedBufferMagic
                 [] i = 3 -> size
                 [] i \in {1, 2, 5, 6, 7, 8, 9} -> 0
                 [] OTHER -> Junk]
      s0 == [mem |-> m0, blocks |-> {}, fault |-> "none", gen |-> 0,
             snaps |-> <<>>, stale |-> FALSE]
  IN Let([s1 \in {InitFreeList(s0)} |->
       IF movable
         THEN W(W(s1, kHeaderSize, ResizerHandle), kHeaderSize + 4, 0)
         ELSE s1])

GetResizer(s) ==
  IF R(s, kOffMagic) # kMovableBufferMagic THEN 0 ELSE R(s, kHeaderSize)

---------------------------------------------------------------------------
(* The small-block tier's constants and its length-word encoding.          *)

kNumSmallBlocks == 4
kSmallBlockBitNumShift == 26
kSmallBlockBitMapShift == 8
kSmallBlockBitNumMask == 31          \* 0x1f
kSmallBlockBitMapMask == 262143      \* 0x3ffff
kSmallBlockSizeMask == 255           \* 0xff
kSizeofBitMapRun == 8                \* sizeof(BitMapRun)
kSizeofVectorHeader == 8             \* sizeof(VectorHeader)

\* small_block_infos[i] = {num, size}
small_block_infos ==
  [i \in 0 .. 3 |->
     CASE i = 0 -> [num |-> 32, size |-> 16]
       [] i = 1 -> [num |-> 16, size |-> 32]
       [] i = 2 -> [num |-> 8, size |-> 64]
       [] i = 3 -> [num |-> 4, size |-> 128]]

Pow2(k) == 2 ^ k

\* the low 31 bits of a word
Low31(w) == IF w < 0 THEN w - MinInt32 ELSE w

\* (w >> shift) & mask for a mask of the form 2^k - 1 and shift + k <= 31
Field(w, shift, mask) == (Low31(w) \div Pow2(shift)) % (mask + 1)

TopBit(w) == w < 0

\* w << k as a uint32, for 0 < k < 31
Shl32(w, k) ==
  (Low31(w) % Pow2(31 - k)) * Pow2(k)
    + (IF (Low31(w) \div Pow2(31 - k)) % 2 = 1 THEN MinInt32 ELSE 0)

TestBit(w, k) == IF k = 31 THEN w < 0 ELSE (Low31(w) \div Pow2(k)) % 2 = 1
SetBit(w, k) ==
  IF TestBit(w, k) THEN w ELSE IF k = 31 THEN w + MinInt32 ELSE w + Pow2(k)
\* a word whose bit k is left as it is
KeepBit(w, k) == w
ClearBit(w, k) ==
  IF ~TestBit(w, k) THEN w ELSE IF k = 31 THEN w - MinInt32 ELSE w - Pow2(k)

\* a search that takes bit k whatever the word holds
FfsAny(w, k) == k + 1

\* ffs(~w): 1 + index of the lowest clear bit of w, 0 when every bit is set
RECURSIVE FfsNot(_, _)
FfsNot(w, k) ==
  IF k > 31 THEN 0 ELSE IF ~TestBit(w, k) THEN k + 1 ELSE FfsNot(w, k + 1)

RECURSIVE SmallBlockClass(_, _)
SmallBlockClass(n, i) ==
  IF i >= kNumSmallBlocks THEN -1
  ELSE IF n <= small_block_infos[i].size THEN i
  ELSE SmallBlockClass(n, i + 1)

SmallBlockIndex(n) == SmallBlockClass(n, 0)

SmallBlockIndexFromEncodedSize(w) ==
  IF ~TopBit(w) THEN -1
  ELSE SmallBlockClass(Field(w, 0, kSmallBlockSizeMask), 0)

\* (1 << 31) | (i << 8) | (bit << 26) | (size & 0xff); the fields are disjoint
\* for i < 2^18 and bit < 32, so the OR is a sum.
EncodeSmall(i, bit, size) ==
  MinInt32 + (i % (kSmallBlockBitMapMask + 1)) * Pow2(kSmallBlockBitMapShift)
           + bit * Pow2(kSmallBlockBitNumShift) + (size % (kSmallBlockSizeMask + 1))

\* the three uint8 fields of a BitMapRun, packed in the word after `bits`
RunSize(w) == Field(w, 0, 255)
RunNum(w) == Field(w, 8, 255)
RunFree(w) == Field(w, 16, 255)
RunPad(w) == IF w < 0 THEN 128 + Field(w, 24, 127) ELSE Field(w, 24, 127)
PackRun(size, num, free, pad) ==
  LET lo == size + num * 256 + free * 65536 + (pad % 128) * 16777216
  IN IF pad >= 128 THEN lo + MinInt32 ELSE lo
SetRunFree(w, f) == PackRun(RunSize(w), RunNum(w), f % 256, RunPad(w))

---------------------------------------------------------------------------
(* Vectors of BufferOffset, as the bitmap tier uses them.                  *)

\* VectorGet<BufferOffset>(hdr, index), hdr a pointer of generation g
VectorGet(s, g, hdr, index) ==
  IF UGe(index, PR(s, g, hdr)) THEN 0
  ELSE LET addr == ToAddress(s, PR(s, g, hdr + 4))
       IN IF addr = 0 THEN 0 ELSE R(s, addr + 4 * index)

\* BitMapRun::Free through PayloadBuffer::FreeSmallBlock
FreeSmallBlock(s, index, bitmap_index, bitnum) ==
  LET hdr == ToAddress(s, R(s, kOffBitmaps + 4 * index))
  IN Let([s1 \in {Touch(s, hdr)} |->
     Let([run \in {ToAddress(s1, VectorGet(s1, s1.gen, hdr, bitmap_index))} |->
     Let([s2 \in {Touch(s1, run)} |->
     Let([s3 \in {W(s2, run, ClearBit(R(s2, run), bitnum))} |->
     W(s3, run + 4, SetRunFree(R(s3, run + 4), RunFree(R(s3, run + 4)) + 1))
     ])])])])

---------------------------------------------------------------------------
(* PayloadBuffer::Free and its helpers.                                    *)

\* more steps than any acyclic list in the region has entries
Fuel(s) == Cardinality(DOMAIN s.mem)

\* The choices a call cannot control: whether the resizer moves the region
\* (realloc may grow it in place), whether the abandoned region keeps its
\* bytes or is overwritten on release, and whether it lies above the new one.
NoND == [move |-> FALSE, perturb |-> FALSE, oldAbove |-> FALSE]
NDs == [move : BOOLEAN, perturb : BOOLEAN, oldAbove : BOOLEAN]

\* free_block > alloc_header, for alloc_header a pointer of generation g
Higher(s, fb, ah, g, nd) == IF Cur(s, g) THEN fb > ah ELSE ~nd.oldAbove

\* The walk of Free and of Realloc: the first free block above ah.
RECURSIVE WalkAbove(_, _, _, _, _, _, _)
WalkAbove(s, fb, prev, ah, g, nd, fuel) ==
  IF fb = 0 THEN [fb |-> 0, prev |-> prev, st |-> "end"]
  ELSE IF fuel = 0 THEN [fb |-> fb, prev |-> prev, st |-> "hang"]
  ELSE IF ~InMem(s, fb) THEN [fb |-> fb, prev |-> prev, st |-> "wild"]
  ELSE IF Higher(s, fb, ah, g, nd)
    THEN [fb |-> fb, prev |-> prev, st |-> "found"]
  ELSE WalkAbove(s, ToAddress(s, R(s, fb + 4)), fb, ah, g, nd, fuel - 1)

MergeWithAboveIfPossible(s, alloc_block, alloc_header, g, free_block, next_ptr, alloc_length) ==
  IF Cur(s, g) /\ PAdd(alloc_block, alloc_length) = free_block
    THEN Let([s1 \in {PW(s, g, alloc_header + 4, R(s, free_block + 4))} |->
         Let([s2 \in {PW(s1, g, alloc_header,
                         Add32(Add32(alloc_length, kSizeofU32), R(s1, free_block)))} |->
         W(s2, next_ptr, ToOffsetG(s2, g, alloc_header))])])
    ELSE Let([s1 \in {PW(s, g, alloc_header,
                         Add32(PR(s, g, alloc_header), kSizeofU32))} |->
         Let([s2 \in {PW(s1, g, alloc_header + 4, ToOffset(s1, free_block))} |->
         W(s2, next_ptr, ToOffsetG(s2, g, alloc_header))])])

MergeWithBelowIfPossible(s, free_block, g, prev) ==
  IF Cur(s, g) /\ PAdd(prev, R(s, prev)) = free_block
    THEN Let([s1 \in {W(s, prev + 4, R(s, free_block + 4))} |->
           [s |-> W(s1, prev, Add32(R(s1, prev), R(s1, free_block))),
            merged |-> TRUE]])
    ELSE [s |-> s, merged |-> FALSE]

InsertNewFreeBlockAtEnd(s, free_block, g, prev, length) ==
  Let([s1 \in {PW(s, g, free_block, length)} |->
  Let([s2 \in {PW(s1, g, free_block + 4, 0)} |->
    IF prev = 0
      THEN W(s2, kOffFreeList, ToOffsetG(s2, g, free_block))
      ELSE W(s2, prev + 4, ToOffsetG(s2, g, free_block))])])

\* the free-list part of Free, from `alloc_header` on
FreeToList(s, p, g, nd, alloc_length) ==
  LET alloc_header == p - kSizeofU32
      free_block == FreeList(s)
  IN IF free_block = 0
       THEN Let([s1 \in {PW(s, g, alloc_header, Add32(alloc_length, kSizeofSizeT))} |->
            Let([s2 \in {PW(s1, g, alloc_header + 4, 0)} |->
            W(s2, kOffFreeList, ToOffsetG(s2, g, alloc_header))])])
       ELSE
         Let([w \in {WalkAbove(s, free_block, 0, alloc_header, g, nd, Fuel(s))} |->
           LET next_ptr == IF w.prev = 0 THEN kOffFreeList ELSE w.prev + 4
           IN CASE w.st = "hang" -> Fault(s, "hang")
                [] w.st = "wild" -> Fault(s, "wild")
                [] w.st = "found" ->
                     Let([s1 \in {MergeWithAboveIfPossible(s, p, alloc_header, g,
                                    w.fb, next_ptr, alloc_length)} |->
                       IF w.prev # 0
                         THEN MergeWithBelowIfPossible(s1, alloc_header, g, w.prev).s
                         ELSE s1])
                [] OTHER ->
                     Let([mb \in {IF w.prev # 0
                                    THEN MergeWithBelowIfPossible(s, alloc_header, g,
                                                                  w.prev)
                                    ELSE [s |-> s, merged |-> FALSE]} |->
                       IF mb.merged THEN mb.s
                       ELSE InsertNewFreeBlockAtEnd(s, alloc_header, g, w.prev,
                              Add32(PR(s, g, alloc_header), kSizeofU32))])])

\* Free(p), p a pointer of generation g
Free(s, p, g, nd) ==
  IF p = 0 \/ s.fault # "none" THEN s
  ELSE
    Let([s0 \in {PTouch(s, g, p - kSizeofU32)} |->
    Let([alloc_length \in {PR(s0, g, p - kSizeofU32)} |->
      IF SmallBlockIndexFromEncodedSize(alloc_length) >= 0
        THEN FreeSmallBlock(s0, SmallBlockIndexFromEncodedSize(alloc_length),
               Field(alloc_length, kSmallBlockBitMapShift, kSmallBlockBitMapMask),
               Field(alloc_length, kSmallBlockBitNumShift, kSmallBlockBitNumMask))
        ELSE FreeToList(IF Cur(s0, g) THEN [s0 EXCEPT !.blocks = @ \ {p}] ELSE s0,
                        p, g, nd, alloc_length)])])

---------------------------------------------------------------------------
(* Bytes inside words (little endian), for memcpy of a byte count.         *)

Byte(w, k) ==
  IF k = 3 THEN (Low31(w) \div 16777216) + (IF w < 0 THEN 128 ELSE 0)
  ELSE (Low31(w) \div Pow2(8 * k)) % 256

FromBytes(b0, b1, b2, b3) ==
  b0 + 256 * b1 + 65536 * b2 + 16777216 * (b3 % 128)
     + (IF b3 >= 128 THEN MinInt32 ELSE 0)

\* the word whose low k bytes come from src and whose other bytes from dst
MergeLow(dst, src, k) ==
  FromBytes(IF k > 0 THEN Byte(src, 0) ELSE Byte(dst, 0),
            IF k > 1 THEN Byte(src, 1) ELSE Byte(dst, 1),
            IF k > 2 THEN Byte(src, 2) ELSE Byte(dst, 2),
            IF k > 3 THEN Byte(src, 3) ELSE Byte(dst, 3))

\* memcpy(dst, src, n): src is a pointer of generation g, read in state ss
RECURSIVE CopyBytes(_, _, _, _, _, _)
CopyBytes(sd, ss, g, dst, src, n) ==
  IF n <= 0 \/ sd.fault # "none" THEN sd
  ELSE IF n >= 4
    THEN CopyBytes(W(sd, dst, PR(ss, g, src)), ss, g, dst + 4, src + 4, n - 4)
    ELSE W(sd, dst, MergeLow(R(sd, dst), PR(ss, g, src), n))

MemCpy(s, g, dst, src, n) ==
  IF n < 0 THEN Fault(s, "wild")
  ELSE CopyBytes(PTouch(s, g, src), s, g, dst, src, n)

\* memset(a, 0, n) through a raw pointer: whole words where a is aligned and
\* four bytes are left, the bytes k .. k + m - 1 of a word otherwise
RECURSIVE Zero(_, _, _)
Zero(s, a, n) ==
  IF n <= 0 \/ s.fault # "none" THEN s
  ELSE IF a % 4 = 0 /\ n >= 4 THEN Zero(W(s, a, 0), a + 4, n - 4)
  ELSE LET k == a % 4
           m == IF n < 4 - k THEN n ELSE 4 - k
           w == R(s, a - k)
           keep(i) == IF i >= k /\ i < k + m THEN 0 ELSE Byte(w, i)
       IN Zero(W(s, a - k, FromBytes(keep(0), keep(1), keep(2), keep(3))),
               a - k + 4, n - m)

---------------------------------------------------------------------------
(* Allocation from the free list.                                          *)

TakeStartOfFreeBlock(s, block, num_bytes, length, prev) ==
  Let([rem \in {Sub32(R(s, block), length)} |->
    IF UGe(rem, kFreeBlockHeaderSize)
      THEN LET next == PAdd(block, length)
           IN Let([s1 \in {W(s, next, rem)} |->
              Let([s2 \in {W(s1, next + 4, R(s1, block + 4))} |->
              Let([s3 \in {IF prev = 0
                             THEN W(s2, kOffFreeList, ToOffset(s2, next))
                             ELSE W(s2, prev + 4, ToOffset(s2, next))} |->
                [s |-> UpdateHWM(s3, ToOffset(s3, next + kFreeBlockHeaderSize)),
                 n |-> num_bytes]])])])
      ELSE Let([s1 \in {IF prev = 0
                          THEN W(s, kOffFreeList, R(s, block + 4))
                          ELSE W(s, prev + 4, R(s, block + 4))} |->
             [s |-> UpdateHWM(s1, Add32(R(s1, block + 4), kFreeBlockHeaderSize)),
              n |-> Sub32(R(s1, block), kSizeofU32)]])])

\* The first-fit walk of Allocate.
RECURSIVE WalkFit(_, _, _, _, _)
WalkFit(s, fb, prev, full_length, fuel) ==
  IF fb = 0 THEN [fb |-> 0, prev |-> prev, st |-> "end"]
  ELSE IF fuel = 0 THEN [fb |-> fb, prev |-> prev, st |-> "hang"]
  ELSE IF ~InMem(s, fb) THEN [fb |-> fb, prev |-> prev, st |-> "wild"]
  ELSE IF UGe(R(s, fb), full_length) THEN [fb |-> fb, prev |-> prev, st |-> "found"]
  ELSE WalkFit(s, ToAddress(s, R(s, fb + 4)), fb, full_length, fuel - 1)

\* The walk to the last free block after a resize.
RECURSIVE WalkEnd(_, _, _, _)
WalkEnd(s, fb, prev, fuel) ==
  IF fb = 0 THEN [prev |-> prev, st |-> "end"]
  ELSE IF fuel = 0 THEN [prev |-> prev, st |-> "hang"]
  ELSE IF ~InMem(s, fb) THEN [prev |-> prev, st |-> "wild"]
  ELSE WalkEnd(s, ToAddress(s, R(s, fb + 4)), fb, fuel - 1)

\* new_size = old_size * 2; while (new_size < full_length) new_size *= 2
\* a size computation that doubles once and never again
DoubleOnce(new_size, full_length) == new_size

RECURSIVE GrowSize(_, _)
GrowSize(new_size, full_length) ==
  IF new_size >= full_length \/ new_size <= 0 \/ new_size > MaxFullSize
    THEN new_size ELSE GrowSize(new_size * 2, full_length)

\* The resizer of the tests (realloc): a region of new_size bytes that starts
\* with the old_size bytes of the old one; the rest is unwritten memory.
CallResizer(s, old_size, new_size, nd) ==
  LET m == [i \in 0 .. (new_size \div 4) - 1 |->
              IF i \in DOMAIN s.mem /\ i < old_size \div 4 THEN s.mem[i] ELSE Junk]
      left == IF nd.perturb THEN [i \in DOMAIN s.mem |-> Junk] ELSE s.mem
  IN IF nd.move
       THEN [s EXCEPT !.mem = m, !.gen = @ + 1, !.snaps = Append(@, left)]
       ELSE [s EXCEPT !.mem = m]

\* The growth step of Allocate: call the resizer, then splice the new memory
\* into the free list.
GrowRegion(s, full_length, nd) ==
  LET old_size == full_size(s)
      new_size == GrowSize(old_size * 2, full_length)
      start_of_new_memory == old_size
  IN IF R(s, kHeaderSize) # ResizerHandle THEN Fault(s, "wild")
     ELSE IF new_size > MaxFullSize \/ new_size <= 0 THEN Fault(s, "cap")
     ELSE
       Let([s1 \in {CallResizer(s, old_size, new_size, nd)} |->
       Let([s2 \in {W(s1, kOffFullSize, new_size)} |->
       Let([w \in {WalkEnd(s2, FreeList(s2), 0, Fuel(s2))} |->
         IF w.st # "end" THEN Fault(s2, w.st)
         ELSE IF w.prev # 0 /\ PAdd(w.prev, R(s2, w.prev)) = start_of_new_memory
           THEN W(s2, w.prev, Add32(R(s2, w.prev), new_size - old_size))
           ELSE Let([s3 \in {W(s2, start_of_new_memory + 4, 0)} |->
                Let([s4 \in {W(s3, start_of_new_memory, new_size - old_size)} |->
                  IF w.prev = 0
                    THEN W(s4, kOffFreeList, ToOffset(s4, start_of_new_memory))
                    ELSE W(s4, w.prev + 4, ToOffset(s4, start_of_new_memory))])])
       ])])])

\* The tail of Allocate once a free block is found: the block is taken, its
\* length is stored as a size_t (8 bytes) and the payload cleared on request.
TakeBlock(s, free_block, prev, n, full_length, clear) ==
  LET addr == free_block + kSizeofU32
  IN Let([t \in {TakeStartOfFreeBlock(s, free_block, n, full_length, prev)} |->
     Let([s1 \in {W(t.s, free_block, t.n)} |->
     Let([s2 \in {W(s1, free_block + 4, 0)} |->
     Let([s3 \in {IF clear THEN Zero(s2, addr, full_length - 4) ELSE s2} |->
       [s |-> [s3 EXCEPT !.blocks = @ \cup {addr}], p |-> addr]])])])])

---------------------------------------------------------------------------
(* Realloc, the vectors and the bitmap tier.  They call each other and     *)
(* Allocate; every operator returns the state and, where the function      *)
(* returns a pointer, that pointer (0 for null).                           *)

RECURSIVE Allocate(_, _, _, _, _, _)
RECURSIVE Realloc(_, _, _, _, _, _, _)

ShrinkBlock(s, alloc_block, orig_length, new_length, len_ptr, nd) ==
  LET rem == Sub32(orig_length, new_length)
      newp == alloc_block + kSizeofU32 + new_length
  IN IF UGe(rem, kFreeBlockHeaderSize)
       THEN Let([s1 \in {W(s, len_ptr, new_length)} |->
            Let([s2 \in {W(s1, newp, Sub32(rem, kSizeofU32))} |->
            Free(s2, newp + 4, s2.gen, nd)])])
       ELSE s

ExpandIntoFreeBlockAbove(s, free_block, new_length, len_diff, free_remaining, len_ptr, next_ptr, clear) ==
  LET next == ToAddress(s, R(s, free_block + 4))
      new_block == free_block + len_diff
  IN Let([s1 \in {W(s, len_ptr, new_length)} |->
     Let([s2 \in {W(s1, new_block, free_remaining)} |->
     Let([s3 \in {W(s2, new_block + 4, ToOffset(s2, next))} |->
     Let([s4 \in {W(s3, next_ptr, ToOffset(s3, new_block))} |->
     Let([s5 \in {UpdateHWM(s4, ToOffset(s4, new_block))} |->
       IF clear THEN Zero(s5, free_block, len_diff) ELSE s5])])])])])

MergeWithFreeBlockBelow(s, alloc_block, prev, free_block, new_length, orig_length, clear) ==
  LET next_ptr == IF prev = 0 THEN kOffFreeList ELSE prev + 4
      next == ToAddress(s, R(s, free_block + 4))
      newb == free_block + new_length + kSizeofU32
      len_ptr == free_block
  IN Let([s1 \in {W(s, newb, Sub32(Add32(R(s, free_block), orig_length),
                                   new_length))} |->
     Let([s2 \in {W(s1, newb + 4, ToOffset(s1, next))} |->
     Let([s3 \in {W(s2, next_ptr, ToOffset(s2, newb))} |->
     Let([s4 \in {W(s3, len_ptr, new_length)} |->
     Let([s5 \in {MemCpy(s4, s4.gen, len_ptr + 4, alloc_block, orig_length)} |->
     Let([s6 \in {IF clear
                    THEN Zero(s5, len_ptr + 4 + orig_length,
                              new_length - orig_length)
                    ELSE s5} |->
       [s |-> [s6 EXCEPT !.blocks = (@ \ {alloc_block}) \cup {len_ptr + 4}],
        p |-> len_ptr + 4]])])])])])])

\* The loop of Realloc over the free list: what it decides to do.
RECURSIVE ReallocWalk(_, _, _, _, _, _, _, _)
ReallocWalk(s, fb, prev, prev_prev, p, n, orig_length, fuel) ==
  LET out(k) == [kind |-> k, fb |-> fb, prev |-> prev, prev_prev |-> prev_prev]
      diff == n - orig_length
      step == ReallocWalk(s, ToAddress(s, R(s, fb + 4)), fb, prev, p, n,
                          orig_length, fuel - 1)
  IN IF fb = 0 THEN out("alloc")
     ELSE IF fuel = 0 THEN out("hang")
     ELSE IF ~InMem(s, fb) THEN out("wild")
     ELSE IF fb > p - kSizeofU32
       THEN IF PAdd(p, orig_length) = fb /\ UGt(R(s, fb), diff)
                 /\ UGt(Sub32(R(s, fb), diff), kFreeBlockHeaderSize)
              THEN out("expand")
            ELSE IF prev # 0
              THEN IF PAdd(prev, R(s, prev)) = p - kSizeofU32
                        /\ UGe(R(s, prev), diff)
                     THEN out("below") ELSE out("alloc")
            ELSE step
     ELSE step

\* Realloc of a bitmap-tier block (the length word has bit 31 set)
ReallocSmall(s, p, n, alignment, clear, enable_small_block, nd, orig_length) ==
  LET small_block_index == SmallBlockIndexFromEncodedSize(orig_length)
      decoded_length == Field(orig_length, 0, kSmallBlockSizeMask)
      len_ptr == p - kSizeofU32
      g == s.gen
  IN IF SmallBlockIndex(n) = small_block_index
       THEN LET bitnum == Field(orig_length, kSmallBlockBitNumShift, kSmallBlockBitNumMask)
                bitmap_index == Field(orig_length, kSmallBlockBitMapShift, kSmallBlockBitMapMask)
            IN Let([s1 \in {W(s, len_ptr, EncodeSmall(bitmap_index, bitnum, n))} |->
                 [s |-> IF clear /\ n > decoded_length
                          THEN Zero(s1, p + decoded_length, n - decoded_length)
                          ELSE s1,
                  p |-> p]])
       ELSE Let([a \in {Allocate(s, n, alignment, FALSE, enable_small_block, nd)} |->
              IF a.p = 0 THEN [s |-> a.s, p |-> 0]
              ELSE
                Let([s1 \in {MemCpy(a.s, g, a.p, p, decoded_length)} |->
                Let([s2 \in {IF clear /\ n > decoded_length
                               THEN Zero(s1, a.p + decoded_length, n - decoded_length)
                               ELSE s1} |->
                  [s |-> Free(s2, p, g, nd), p |-> a.p]])])])

Realloc(s, p, n, alignment, clear, enable_small_block, nd) ==
  IF s.fault # "none" THEN [s |-> s, p |-> 0]
  ELSE IF p = 0 THEN Allocate(s, n, alignment, clear, TRUE, nd)
  ELSE IF n < 0 \/ n > MaxFullSize THEN [s |-> Fault(s, "cap"), p |-> 0]
  ELSE
    LET len_ptr == p - kSizeofU32
        orig_length == R(s, len_ptr)
        n8 == AlignSize(n, 8)
        diff == n8 - orig_length
        g == s.gen
    IN IF ~InMem(s, len_ptr) THEN [s |-> Fault(s, "wild"), p |-> 0]
       ELSE IF enable_small_block /\ SmallBlockIndexFromEncodedSize(orig_length) >= 0
         THEN ReallocSmall(s, p, n, alignment, clear, enable_small_block, nd,
                           orig_length)
       ELSE IF n8 = orig_length THEN [s |-> s, p |-> p]
       ELSE IF ULt(n8, orig_length)
         THEN [s |-> ShrinkBlock(s, len_ptr, orig_length, n8, len_ptr, nd), p |-> p]
       ELSE
         Let([w \in {ReallocWalk(s, FreeList(s), 0, 0, p, n8, orig_length, Fuel(s))} |->
           CASE w.kind = "hang" -> [s |-> Fault(s, "hang"), p |-> 0]
             [] w.kind = "wild" -> [s |-> Fault(s, "wild"), p |-> 0]
             [] w.kind = "expand" ->
                  [s |-> ExpandIntoFreeBlockAbove(s, w.fb, n8, diff,
                            Sub32(R(s, w.fb), diff), len_ptr,
                            IF w.prev = 0 THEN kOffFreeList ELSE w.prev + 4, clear),
                   p |-> p]
             [] w.kind = "below" ->
                  MergeWithFreeBlockBelow(s, p, w.prev_prev, w.prev, n8,
                                          orig_length, clear)
             [] OTHER ->
                  Let([a \in {Allocate(s, n8, alignment, FALSE, enable_small_block,
                                       nd)} |->
                    IF a.p = 0 THEN [s |-> a.s, p |-> 0]
                    ELSE
                      Let([s1 \in {MemCpy(a.s, g, a.p, p, orig_length)} |->
                      Let([s2 \in {IF clear
                                     THEN Zero(s1, a.p + orig_length, n8 - orig_length)
                                     ELSE s1} |->
                        [s |-> Free(s2, p, g, nd), p |-> a.p]])])])])

---------------------------------------------------------------------------
(* Vectors of 4-byte elements (uint32_t, BufferOffset).  hdr is a native   *)
(* pointer of generation g: the callers derive it before the call.         *)

kSizeofT == 4

\* the store through  ToAddress<T>(hdr->data) + hdr->num_elements
StoreElement(s, g, hdr, v) ==
  LET base == ToAddress(s, PR(s, g, hdr + 4))
      num == PR(s, g, hdr)
  IN IF base = 0 THEN Fault(s, "null")
     ELSE IF num < 0 \/ num > MaxInt32 \div kSizeofT THEN Fault(s, "wild")
     ELSE W(s, PAdd(base, kSizeofT * num), v)

VectorPush(s, g, hdr, v, enable_small_block, nd) ==
  Let([s0 \in {PTouch(s, g, hdr)} |->
    IF s0.fault # "none" THEN s0
    ELSE
      LET num_elements == PR(s0, g, hdr)
          total_size == Shl32(num_elements, 2)
          data == PR(s0, g, hdr + 4)
          block == ToAddress(s0, data)
          current_size == R(s0, block - 4)
      IN Let([s1 \in {IF data = 0
                        THEN Let([a \in {Allocate(s0, 2 * kSizeofT, 8, TRUE,
                                                  enable_small_block, nd)} |->
                               PW(PTouch(a.s, g, hdr), g, hdr + 4,
                                  ToOffset(a.s, a.p))])
                      ELSE IF current_size = total_size
                        THEN Let([a \in {Realloc(Touch(s0, block - 4), block,
                                                 Shl32(num_elements, 3), 8,
                                                 TRUE, enable_small_block, nd)} |->
                               PW(PTouch(a.s, g, hdr), g, hdr + 4,
                                  ToOffset(a.s, a.p))])
                      ELSE Touch(s0, block - 4)} |->
         Let([s2 \in {StoreElement(s1, g, hdr, v)} |->
         PW(s2, g, hdr, Add32(PR(s2, g, hdr), 1))])])])

VectorReserve(s, g, hdr, n, enable_small_block, nd) ==
  Let([s0 \in {PTouch(s, g, hdr)} |->
    IF s0.fault # "none" THEN s0
    ELSE
      LET data == PR(s0, g, hdr + 4)
          block == ToAddress(s0, data)
          current_size == R(s0, block - 4)
      IN IF data = 0
           THEN Let([a \in {Allocate(s0, n * kSizeofT, 8, FALSE,
                                     enable_small_block, nd)} |->
                  PW(PTouch(a.s, g, hdr), g, hdr + 4, ToOffset(a.s, a.p))])
         ELSE IF ULt(current_size, n * kSizeofT)
           THEN Let([a \in {Realloc(Touch(s0, block - 4), block, n * kSizeofT, 8, FALSE,
                                    enable_small_block, nd)} |->
                  PW(PTouch(a.s, g, hdr), g, hdr + 4, ToOffset(a.s, a.p))])
         ELSE Touch(s0, block - 4)])

VectorResize(s, g, hdr, n, nd) ==
  Let([s0 \in {PTouch(s, g, hdr)} |->
    IF s0.fault # "none" THEN s0
    ELSE
      LET data == PR(s0, g, hdr + 4)
          block == ToAddress(s0, data)
          current_size == R(s0, block - 4)
      IN Let([s1 \in {IF data = 0
                        THEN Let([a \in {Allocate(s0, n * kSizeofT, 8, TRUE, TRUE,
                                                  nd)} |->
                               PW(PTouch(a.s, g, hdr), g, hdr + 4,
                                  ToOffset(a.s, a.p))])
                      ELSE IF ULt(current_size, n * kSizeofT)
                        THEN Let([a \in {Realloc(Touch(s0, block - 4), block,
                                                 n * kSizeofT, 8, TRUE, TRUE, nd)} |->
                               PW(PTouch(a.s, g, hdr), g, hdr + 4,
                                  ToOffset(a.s, a.p))])
                      ELSE Touch(s0, block - 4)} |->
         PW(s1, g, hdr, n)])])

VectorClear(s, g, hdr, nd) ==
  Let([s0 \in {PTouch(s, g, hdr)} |->
  Let([s1 \in {IF PR(s0, g, hdr + 4) # 0
                 THEN Free(s0, ToAddress(s0, PR(s0, g, hdr + 4)), s0.gen, nd)
                 ELSE s0} |->
  PW(PW(s1, g, hdr + 4, 0), g, hdr, 0)])])

---------------------------------------------------------------------------
(* The bitmap tier.                                                        *)

AllocateBitMapRunVector(s, nd) ==
  Let([a \in {Allocate(s, kSizeofVectorHeader, 4, TRUE, FALSE, nd)} |->
    IF a.p = 0 THEN [s |-> a.s, off |-> 0]
    ELSE [s |-> VectorReserve(a.s, a.s.gen, a.p, 8, FALSE, nd),
          off |-> ToOffset(a.s, a.p)]])

AllocateBitMapRun(s, size, num, nd) ==
  Let([a \in {Allocate(s, kSizeofBitMapRun + (size + 4) * num, 4, FALSE, FALSE,
                       nd)} |->
    IF a.p = 0 THEN [s |-> a.s, p |-> 0]
    ELSE Let([s1 \in {W(a.s, a.p + 4,
                        PackRun(size, num, num, RunPad(R(a.s, a.p + 4))))} |->
           [s |-> W(s1, a.p, 0), p |-> a.p]])])

\* for (int i = hdr->num_elements - 1; i >= 0; i--): the first run, from the
\* newest, with free != 0; -1 when there is none, -2 when a run is null.
RECURSIVE ScanRuns(_, _, _, _)
ScanRuns(s, g, hdr, i) ==
  IF i < 0 THEN -1
  ELSE LET run == ToAddress(s, VectorGet(s, g, hdr, i))
       IN IF run = 0 \/ ~InMem(s, run + 4) THEN -2
          ELSE IF RunFree(R(s, run + 4)) = 0 THEN ScanRuns(s, g, hdr, i - 1)
          ELSE i

\* the fast path of BitMapRun::Allocate: a free bit of run i is taken
TakeSlot(s, g, hdr, i, size, clear) ==
  LET run == ToAddress(s, VectorGet(s, g, hdr, i))
      bits == R(s, run)
      rw == R(s, run + 4)
      bit == FfsNot(bits, 0)
      b == bit - 1
      addr == run + kSizeofBitMapRun + b * (RunSize(rw) + 4) + 4
  IN IF ~(bit > 0 /\ bit <= RunNum(rw)) THEN [s |-> Fault(s, "assert"), p |-> 0]
     ELSE Let([s1 \in {W(s, run, SetBit(bits, b))} |->
          Let([s2 \in {W(s1, run + 4, SetRunFree(rw, RunFree(rw) + 255))} |->
          Let([s3 \in {W(s2, addr - 4, EncodeSmall(i, b, size))} |->
            [s |-> IF clear THEN Zero(s3, addr, size) ELSE s3, p |-> addr]])])])

\* the for (;;) loop of BitMapRun::Allocate
RECURSIVE BitMapRunLoop(_, _, _, _, _, _, _, _, _)
BitMapRunLoop(s, g, hdr, index, size, num, clear, nd, fuel) ==
  Let([s0 \in {PTouch(s, g, hdr)} |->
    IF s0.fault # "none" THEN [s |-> s0, p |-> 0]
    ELSE IF fuel = 0 THEN [s |-> Fault(s0, "hang"), p |-> 0]
    ELSE
      Let([i \in {ScanRuns(s0, g, hdr,
                           IF PR(s0, g, hdr) = MinInt32 THEN MaxInt32
                           ELSE PR(s0, g, hdr) - 1)} |->
        IF i = -2 THEN [s |-> Fault(s0, "null"), p |-> 0]
        ELSE IF i >= 0 THEN TakeSlot(s0, g, hdr, i, size, clear)
        ELSE
          Let([r \in {AllocateBitMapRun(s0, size, num, nd)} |->
            IF r.p = 0 THEN [s |-> r.s, p |-> 0]
            ELSE BitMapRunLoop(VectorPush(r.s, g, hdr, ToOffset(r.s, r.p), FALSE,
                                          nd),
                               g, hdr, index, size, num, clear, nd, fuel - 1)])])])

\* BitMapRun::Allocate through PayloadBuffer::AllocateSmallBlock
AllocateSmallBlock(s, n, index, clear, nd) ==
  LET size == small_block_infos[index].size
      num == small_block_infos[index].num
  IN IF R(s, kOffBitmaps + 4 * index) = 0
       THEN Let([v \in {AllocateBitMapRunVector(s, nd)} |->
              IF v.off = 0 THEN [s |-> v.s, p |-> 0]
              ELSE Let([s1 \in {W(v.s, kOffBitmaps + 4 * index, v.off)} |->
                     BitMapRunLoop(s1, s1.gen,
                                   ToAddress(s1, R(s1, kOffBitmaps + 4 * index)),
                                   index, size, num, clear, nd, 3)])])
       ELSE BitMapRunLoop(s, s.gen, ToAddress(s, R(s, kOffBitmaps + 4 * index)),
                          index, size, num, clear, nd, 3)

---------------------------------------------------------------------------
(* PayloadBuffer::Allocate.                                                *)

Allocate(s, n, alignment, clear, enable_small_block, nd) ==
  IF s.fault # "none" \/ n = 0 THEN [s |-> s, p |-> 0]
  ELSE IF n < 0 \/ n > MaxFullSize THEN [s |-> Fault(s, "cap"), p |-> 0]
  ELSE IF enable_small_block /\ SmallBlockIndex(n) >= 0
    THEN AllocateSmallBlock(s, n, SmallBlockIndex(n), clear, nd)
  ELSE
    LET na == AlignSize(n, alignment)
        full_length == na + kSizeofU32
    IN Let([w \in {WalkFit(s, FreeList(s), 0, full_length, Fuel(s))} |->
         CASE w.st = "hang" -> [s |-> Fault(s, "hang"), p |-> 0]
           [] w.st = "wild" -> [s |-> Fault(s, "wild"), p |-> 0]
           [] w.st = "found" -> TakeBlock(s, w.fb, w.prev, na, full_length, clear)
           [] OTHER ->
                IF GetResizer(s) = 0 THEN [s |-> s, p |-> 0]
                ELSE Let([grown \in {GrowRegion(s, full_length, nd)} |->
                       IF grown.fault # "none" THEN [s |-> grown, p |-> 0]
                       ELSE Allocate(grown, na, alignment, clear, TRUE, nd)])])

---------------------------------------------------------------------------
(* What the claims look at.                                                *)

\* The free list as the code walks it: the (offset, length) pairs from
\* free_list on, following next through ToAddress, at most `fuel` of them.
RECURSIVE FreeListFrom(_, _, _)
FreeListFrom(s, fb, fuel) ==
  IF fb = 0 \/ fuel = 0 THEN <<>>
  ELSE <<(<<fb, R(s, fb)>>)>> \o FreeListFrom(s, ToAddress(s, R(s, fb + 4)), fuel - 1)

FreeListOf(s) == FreeListFrom(s, FreeList(s), Fuel(s) + 1)

\* the state the variables hold, as the record the operators work on
St == [mem |-> mem, blocks |-> blocks, fault |-> fault, gen |-> 0,
       snaps |-> <<>>, stale |-> stale]

Commit(s) ==
  \E t \in {s} :
    /\ mem' = t.mem
    /\ blocks' = t.blocks
    /\ fault' = t.fault
    /\ stale' = t.stale
    /\ io' = io

\* The resizer's choices for a call: they matter only to a call that grows
\* the region, which t, the outcome of the call under NoND, tells.
NDsFor(t) == IF full_size(t) # full_size(St) THEN NDs ELSE {NoND}

ArenaStart(s) ==
  IF R(s, kOffMagic) = kMovableBufferMagic THEN kHeaderSize + kSizeofSizeT
  ELSE kHeaderSize

\* PayloadBuffer::Set<uint32_t>(offset, v)
Set(s, offset, v) == W(s, ToAddress(s, offset), v)

\* a length that can be added up: a word between 0 and the size of the region
Sane(s, w) == w >= 0 /\ w <= 4 * Fuel(s)

RECURSIVE SumSeq(_)
SumSeq(q) == IF q = <<>> THEN 0 ELSE Head(q) + SumSeq(Tail(q))

\* bytes in allocated blocks (length word + 4 each) and bytes in free blocks
RECURSIVE BlockBytes(_, _)
BlockBytes(s, S) ==
  IF S = {} THEN 0
  ELSE LET p == CHOOSE y \in S : TRUE
       IN R(s, p - kSizeofU32) + kSizeofU32 + BlockBytes(s, S \ {p})

LiveBytes(s) == BlockBytes(s, s.blocks)
FreeBytes(s) ==
  LET fl == FreeListOf(s) IN SumSeq([i \in DOMAIN fl |-> fl[i][2]])

Conserved(s) ==
  /\ \A p \in s.blocks : Sane(s, R(s, p - kSizeofU32))
  /\ \A e \in {FreeListOf(s)[i] : i \in DOMAIN FreeListOf(s)} : Sane(s, e[2])
  /\ Len(FreeListOf(s)) <= Fuel(s)
  /\ LiveBytes(s) + FreeBytes(s) = full_size(s) - ArenaStart(s)

Ascending(s) ==
  LET fl == FreeListOf(s)
  IN /\ Len(fl) <= Fuel(s)
     /\ \A i \in 1 .. Len(fl) - 1 : fl[i][1] < fl[i + 1][1]

Coalesced(s) ==
  LET fl == FreeListOf(s)
  IN \A i \in 1 .. Len(fl) - 1 :
       Sane(s, fl[i][2]) /\ fl[i][1] + fl[i][2] < fl[i + 1][1]

---------------------------------------------------------------------------
(* Strings.  A string is a sequence of bytes; a string cell is a uint32    *)
(* length followed by the bytes.                                           *)

\* memcpy(dst, s, len) from the caller's array b into the region
RECURSIVE StoreBytes(_, _, _)
StoreBytes(s, dst, b) ==
  IF b = <<>> \/ s.fault # "none" THEN s
  ELSE IF Len(b) >= 4
    THEN StoreBytes(W(s, dst, FromBytes(b[1], b[2], b[3], b[4])), dst + 4,
                    SubSeq(b, 5, Len(b)))
    ELSE W(s, dst, FromBytes(b[1],
                             IF Len(b) > 1 THEN b[2] ELSE Byte(R(s, dst), 1),
                             IF Len(b) > 2 THEN b[3] ELSE Byte(R(s, dst), 2),
                             Byte(R(s, dst), 3)))

\* the n bytes from address a on
LoadBytes(s, a, n) ==
  [i \in 1 .. n |-> Byte(R(s, a + 4 * ((i - 1) \div 4)), (i - 1) % 4)]

AllocateMainMessage(s, size, nd) ==
  Let([a \in {Allocate(s, size, 8, TRUE, TRUE, nd)} |->
    [s |-> W(a.s, kOffMessage, ToOffset(a.s, a.p)), p |-> a.p]])

SetString(s, b, header_offset, nd) ==
  LET hdr == ToAddress(s, header_offset)
      old_str == ToAddress(s, R(s, hdr))
  IN Let([s0 \in {Touch(s, hdr)} |->
     Let([r \in {IF old_str # 0
                   THEN Realloc(s0, old_str, Len(b) + 4, 4, FALSE, TRUE, nd)
                   ELSE Allocate(s0, Len(b) + 4, 4, FALSE, TRUE, nd)} |->
     Let([s1 \in {W(r.s, r.p, Len(b))} |->
     Let([s2 \in {StoreBytes(s1, r.p + 4, b)} |->
       [s |-> W(s2, ToAddress(s2, header_offset), ToOffset(s2, r.p)),
        p |-> r.p]])])])])

ClearString(s, header_offset, nd) ==
  LET hdr == ToAddress(s, header_offset)
  IN Let([s0 \in {Touch(s, hdr)} |->
       IF s0.fault = "none" /\ R(s0, hdr) # 0
         THEN W(Free(s0, ToAddress(s0, R(s0, hdr)), s0.gen, nd), hdr, 0)
         ELSE s0])

\* GetString(header_offset): the bytes of the string, <<>> when the slot is
\* unset; "wild" when the read leaves the region.
GetString(s, header_offset) ==
  LET addr == ToAddress(s, header_offset)
      p == ToAddress(s, R(s, addr))
  IN IF addr = 0 THEN "wild"
     ELSE IF p = 0 THEN <<>>
     ELSE IF ~Sane(s, R(s, p)) \/ ~InMem(s, p + 4 * ((R(s, p) + 3) \div 4))
       THEN "wild"
     ELSE LoadBytes(s, p + 4, R(s, p))

---------------------------------------------------------------------------
(* The client of the free-list tier: a fixed region, blocks requested with *)
(* the small-block path disabled, freed and reallocated in any order.  The *)
(* client may store the offset of one of its blocks in the first word of   *)
(* another (a message field that refers to a sub-object).                  *)

CoreArenaUnits == 6     \* the arena of the fixed region, in 8-byte units
MaxHeld == 3            \* blocks the client holds at once
MaxSizeUnits == 2       \* the largest request, in 8-byte units
MaxCalls == 8           \* calls in one run of the client

FixedSize == kHeaderSize + 8 * CoreArenaUnits
CoreSizes == {8 * k : k \in 1 .. MaxSizeUnits}

\* last: the last call (op), what it returned (ret), for an Allocate and the
\* Free of its block right after it the free list before the Allocate (fl0),
\* and the number of calls so far
InitLast == [op |-> "New", ret |-> 0, fl0 |-> <<>>, calls |-> 0]

InitCore ==
  \E s \in {NewBuffer(FixedSize, FALSE)} :
    /\ mem = s.mem
    /\ blocks = s.blocks
    /\ fault = s.fault
    /\ stale = s.stale
    /\ io = NoIO
    /\ held = {}
    /\ last = InitLast

CoreAllocate ==
  \E n \in CoreSizes :
    /\ fault = "none"
    /\ last.calls < MaxCalls
    /\ Cardinality(held) < MaxHeld
    /\ \E r \in {Allocate(St, n, 8, TRUE, FALSE, NoND)} :
       /\ Commit(r.s)
       /\ held' = IF r.p # 0 THEN held \cup {r.p} ELSE held
       /\ last' = [op |-> "Allocate", ret |-> r.p, fl0 |-> FreeListOf(St),
                   calls |-> last.calls + 1]

CoreFree ==
  \E p \in held :
    LET undo == last.op = "Allocate" /\ last.ret = p
    IN /\ fault = "none"
       /\ last.calls < MaxCalls
       /\ Commit(Free(St, p, 0, NoND))
       /\ held' = held \ {p}
       /\ last' = [op |-> IF undo THEN "AllocateFree" ELSE "Free", ret |-> 0,
                   fl0 |-> IF undo THEN last.fl0 ELSE <<>>,
                   calls |-> last.calls + 1]

CoreRealloc ==
  \E p \in held, n \in CoreSizes :
    /\ fault = "none"
    /\ last.calls < MaxCalls
    /\ \E r \in {Realloc(St, p, n, 8, TRUE, FALSE, NoND)} :
       /\ Commit(r.s)
       /\ held' = IF r.p # 0 THEN (held \ {p}) \cup {r.p} ELSE held
       /\ last' = [op |-> "Realloc", ret |-> r.p, fl0 |-> <<>>,
                   calls |-> last.calls + 1]

\* the client stores the offset of one of its blocks in the first word of
\* another of its blocks
CoreSet ==
  \E p \in held, q \in held :
    /\ fault = "none"
    /\ last.calls < MaxCalls
    /\ R(St, p) # q
    /\ Commit(Set(St, p, q))
    /\ held' = held
    /\ last' = [op |-> "Set", ret |-> 0, fl0 |-> <<>>, calls |-> last.calls + 1]

NextCore == CoreAllocate \/ CoreFree \/ CoreRealloc \/ CoreSet

Spec == InitCore /\ [][NextCore]_vars

---------------------------------------------------------------------------
(* The free-list tier on the fixed region.                                 *)

\* C1: after any sequence of Allocate, Free and Realloc calls the bytes of
\* the live blocks (length word + 4 each) and the lengths of the free blocks
\* add up to full_size minus the header.
C1_Conservation == fault = "none" => Conserved(St)

\* C2: following next from free_list reaches 0 in finitely many steps and
\* visits strictly increasing offsets.
C2_Ascending == fault = "none" => Ascending(St)

\* C3: no two consecutive free-list entries a, b are contiguous:
\* offset(a) + a.length < offset(b).
C3_Coalesced == fault = "none" => Coalesced(St)

\* the byte ranges <<first, end>> of the live blocks, length word included,
\* and of the blocks on the free list
LiveRanges(s) == {<<p - kSizeofU32, p + R(s, p - kSizeofU32)>> : p \in s.blocks}

FreeRanges(s) ==
  LET fl == FreeListOf(s) IN [i \in DOMAIN fl |-> <<fl[i][1], fl[i][1] + fl[i][2]>>]

Apart(a, b) == a[2] <= b[1] \/ b[2] <= a[1]

Inside(s, a) == ArenaStart(s) <= a[1] /\ a[1] <= a[2] /\ a[2] <= full_size(s)

\* C29: after any sequence of Allocate, Free and Realloc calls the ranges
\* [p - 4, p + len) of the live blocks and [f, f + f.length) of the free
\* blocks are pairwise disjoint and lie between the end of the header and
\* full_size.
C29_Disjoint ==
  fault = "none" =>
    LET live == LiveRanges(St)
        free == FreeRanges(St)
    IN /\ \A a \in live : Inside(St, a)
       /\ \A i \in DOMAIN free : Inside(St, free[i])
       /\ \A a \in live, b \in live : a # b => Apart(a, b)
       /\ \A i \in DOMAIN free, j \in DOMAIN free : i # j => Apart(free[i], free[j])
       /\ \A a \in live, i \in DOMAIN free : Apart(a, free[i])

\* C9: p = Allocate(n) followed at once by Free(p) leaves the sequence of
\* (offset, length) pairs of the free list as it was before the Allocate.
C9_AllocateFree ==
  (fault = "none" /\ last.op = "AllocateFree") => FreeListOf(St) = last.fl0

---------------------------------------------------------------------------
(* Fill, then drain: the client allocates a sequence of blocks from the    *)
(* fixed region in its initial state and then frees all of them in reverse *)
(* order of allocation.  last.order is the stack of blocks not yet freed.  *)

LifoArenaUnits == 8     \* the arena, in 8-byte units
LifoBlocks == 4         \* blocks in one sequence
LifoSizeUnits == 3      \* the largest request, in 8-byte units

LifoSize == kHeaderSize + 8 * LifoArenaUnits
LifoSizes == {8 * k : k \in 1 .. LifoSizeUnits}

InitLifo ==
  \E s \in {NewBuffer(LifoSize, FALSE)} :
    /\ mem = s.mem
    /\ blocks = s.blocks
    /\ fault = s.fault
    /\ stale = s.stale
    /\ io = NoIO
    /\ held = {}
    /\ last = [op |-> "New", order |-> <<>>, phase |-> "alloc"]

LifoAllocate ==
  \E n \in LifoSizes :
    /\ fault = "none"
    /\ last.phase = "alloc"
    /\ Len(last.order) < LifoBlocks
    /\ \E r \in {Allocate(St, n, 8, TRUE, FALSE, NoND)} :
       /\ r.p # 0
       /\ Commit(r.s)
       /\ held' = held \cup {r.p}
       /\ last' = [op |-> "Allocate", order |-> Append(last.order, r.p),
                   phase |-> "alloc"]

LifoFree ==
  /\ fault = "none"
  /\ last.order # <<>>
  /\ \E p \in {last.order[Len(last.order)]} :
     /\ Commit(Free(St, p, 0, NoND))
     /\ held' = held \ {p}
     /\ last' = [op |-> "Free", order |-> SubSeq(last.order, 1, Len(last.order) - 1),
                 phase |-> "free"]

NextLifo == LifoAllocate \/ LifoFree

SpecLifo == InitLifo /\ [][NextLifo]_vars

\* C10: on a fixed region in its initial state, after allocating any
\* sequence of blocks and freeing all of them in reverse order of allocation
\* the free list is one block at the initial free_list offset whose length
\* is the initial arena length.
C10_FillDrain ==
  (fault = "none" /\ last.phase = "free" /\ last.order = <<>>)
    => FreeListOf(St) = <<(<<kHeaderSize, LifoSize - kHeaderSize>>)>>

---------------------------------------------------------------------------
(* Strings in a message: a fixed region whose main message is two string   *)
(* header slots; the client sets, replaces and clears the two strings.     *)
(* last.old is the string the slot held before the call.                   *)

StrArenaWords == 342    \* the arena, in 4-byte words
MaxStrCalls == 5        \* calls in one history

StrSize == kHeaderSize + 4 * StrArenaWords
kMessageSize == 2 * kSizeofU32

\* the longest strings of the two smallest size classes and a short one;
\* bytes below 0x80 and bytes that reach 0x80
StrLens == {3, small_block_infos[0].size - 4, small_block_infos[1].size - 4}
StrSeeds == {64, 112}
StrOf(len, c) == [i \in 1 .. len |-> c + i]
Strings == {StrOf(len, c) : len \in StrLens, c \in StrSeeds}

message(s) == R(s, kOffMessage)
StrSlots(s) == {message(s), message(s) + kSizeofU32}

InitStr ==
  \E a \in {AllocateMainMessage(NewBuffer(StrSize, FALSE), kMessageSize, NoND)} :
    /\ mem = a.s.mem
    /\ blocks = a.s.blocks
    /\ fault = a.s.fault
    /\ stale = a.s.stale
    /\ io = NoIO
    /\ held = {a.p}
    /\ last = [op |-> "New", h |-> 0, str |-> <<>>, old |-> <<>>, calls |-> 0]

StrSetString ==
  \E h \in StrSlots(St), b \in Strings :
    /\ fault = "none"
    /\ last.calls < MaxStrCalls
    /\ \E r \in {SetString(St, b, h, NoND)} :
       /\ Commit(r.s)
       /\ held' = held
       /\ last' = [op |-> "SetString", h |-> h, str |-> b,
                   old |-> GetString(St, h), calls |-> last.calls + 1]

StrClearString ==
  \E h \in StrSlots(St) :
    /\ fault = "none"
    /\ last.calls < MaxStrCalls
    /\ R(St, h) # 0
    /\ Commit(ClearString(St, h, NoND))
    /\ held' = held
    /\ last' = [op |-> "ClearString", h |-> h, str |-> <<>>,
                old |-> GetString(St, h), calls |-> last.calls + 1]

NextStr == StrSetString \/ StrClearString

SpecStr == InitStr /\ [][NextStr]_vars

\* C5: after SetString(h, s) on a header slot h inside a live allocation,
\* the call has completed and GetString(h) returns exactly s, whether the
\* slot was unset or held a string of another length or size class.
C5_SetGet ==
  last.op = "SetString" => (fault = "none" /\ GetString(St, last.h) = last.str)

\* the words of the allocation at a: its length word and its payload, whose
\* size is the one the length word records
AllocWords(s, a) ==
  LET w == R(s, a - kSizeofU32)
      n == IF TopBit(w) THEN Field(w, 0, kSmallBlockSizeMask) ELSE w
  IN IF a = 0 \/ ~Sane(s, n) THEN {}
     ELSE {a - kSizeofU32} \cup {a + 4 * k : k \in 0 .. ((n + 3) \div 4) - 1}

\* the words of the live allocations other than the string of slot h: the
\* message without the slot, and the other slot's string
OtherWords(s, h) ==
  (AllocWords(s, message(s)) \ {h})
    \cup UNION {AllocWords(s, ToAddress(s, R(s, g))) : g \in StrSlots(s) \ {h}}

\* the bitmap runs: the addresses in bitmaps[i]'s vector
RunsOf(s) ==
  UNION {LET hdr == ToAddress(s, R(s, kOffBitmaps + 4 * i))
         IN IF hdr = 0 \/ ~Sane(s, R(s, hdr)) THEN {}
            ELSE {ToAddress(s, VectorGet(s, s.gen, hdr, k)) :
                     k \in 0 .. R(s, hdr) - 1} \ {0}
         : i \in 0 .. kNumSmallBlocks - 1}

\* the bit of a bitmap-tier allocation in its run, as a <<run, bit>> pair
SlotOf(s, a) ==
  LET w == R(s, a - kSizeofU32)
      i == SmallBlockIndexFromEncodedSize(w)
      hdr == ToAddress(s, R(s, kOffBitmaps + 4 * i))
  IN <<ToAddress(s, VectorGet(s, s.gen, hdr,
                     Field(w, kSmallBlockBitMapShift, kSmallBlockBitMapMask))),
       Field(w, kSmallBlockBitNumShift, kSmallBlockBitNumMask)>>

\* the live bitmap-tier allocations other than the string of slot h
OtherSmall(s, h) ==
  {a \in {message(s)} \cup {ToAddress(s, R(s, g)) : g \in StrSlots(s) \ {h}} :
     a # 0 /\ SmallBlockIndexFromEncodedSize(R(s, a - kSizeofU32)) >= 0}

StNext == [mem |-> mem', blocks |-> blocks', fault |-> fault', gen |-> 0,
           snaps |-> <<>>, stale |-> stale']

StringFrame ==
  (last'.op = "SetString" /\ fault' = "none") =>
    /\ \A w \in OtherWords(St, last'.h) : R(StNext, w) = R(St, w)
    /\ \A run \in RunsOf(St) :
         /\ RunSize(R(StNext, run + 4)) = RunSize(R(St, run + 4))
         /\ RunNum(R(StNext, run + 4)) = RunNum(R(St, run + 4))
    /\ \A a \in OtherSmall(St, last'.h) :
         TestBit(R(StNext, SlotOf(St, a)[1]), SlotOf(St, a)[2])

\* C6: replacing a string through SetString changes no byte of the payload
\* or length word of any other live allocation, and no field of a bitmap run
\* other than the bits and free counts of the slots it frees or takes.
C6_StringFrame == [][StringFrame]_vars

---------------------------------------------------------------------------
(* A vector in a message: the main message is one VectorHeader, as in the  *)
(* vector tests.  The region is fixed, or moveable with so little free     *)
(* space that a push outside the bitmap tier has to grow it.  The caller   *)
(* derives hdr from the message offset before every call.  last.xs is the  *)
(* sequence of values pushed while only VectorPush has been called.        *)

VecSlackWords == 16     \* free words of the fixed region after construction
MaxVecCalls == 6        \* calls in one history

\* bytes the construction takes: the run vector's header and data, the run
kInitBytes ==
  (kSizeofVectorHeader + kSizeofU32) + (8 * kSizeofU32 + kSizeofU32)
    + (kSizeofBitMapRun
         + (small_block_infos[0].size + 4) * small_block_infos[0].num + kSizeofU32)

VecFixedSize == kHeaderSize + kInitBytes + 4 * VecSlackWords
VecMovableSize == kHeaderSize + kSizeofSizeT + kInitBytes + kFreeBlockHeaderSize

VecValues == {17, 34}
VecHdr(s) == ToAddress(s, message(s))

InitVec ==
  \E movable \in BOOLEAN :
    \E a \in {AllocateMainMessage(
                NewBuffer(IF movable THEN VecMovableSize ELSE VecFixedSize, movable),
                kSizeofVectorHeader, NoND)} :
      /\ mem = a.s.mem
      /\ blocks = a.s.blocks
      /\ fault = a.s.fault
      /\ stale = a.s.stale
      /\ io = NoIO
      /\ held = {a.p}
      /\ last = [op |-> "New", xs |-> <<>>, pushes |-> TRUE, moved |-> FALSE,
                 calls |-> 0]

VecPush ==
  \E v \in VecValues, enable_small_block \in BOOLEAN :
    /\ fault = "none"
    /\ last.calls < MaxVecCalls
    /\ \E nd \in NDsFor(VectorPush(St, 0, VecHdr(St), v, enable_small_block, NoND)) :
       \E t \in {VectorPush(St, 0, VecHdr(St), v, enable_small_block, nd)} :
       /\ Commit(t)
       /\ held' = held
       /\ last' = [op |-> "VectorPush",
                   xs |-> IF last.pushes THEN Append(last.xs, v) ELSE <<>>,
                   pushes |-> last.pushes, moved |-> t.gen > 0,
                   calls |-> last.calls + 1]

VecReserve ==
  \E n \in {3, 5}, enable_small_block \in BOOLEAN :
    /\ fault = "none"
    /\ last.calls < MaxVecCalls
    /\ \E nd \in NDsFor(VectorReserve(St, 0, VecHdr(St), n, enable_small_block, NoND)) :
       \E t \in {VectorReserve(St, 0, VecHdr(St), n, enable_small_block, nd)} :
       /\ Commit(t)
       /\ held' = held
       /\ last' = [op |-> "VectorReserve", xs |-> <<>>, pushes |-> FALSE,
                   moved |-> t.gen > 0, calls |-> last.calls + 1]

VecResize ==
  \E n \in {1, 5} :
    /\ fault = "none"
    /\ last.calls < MaxVecCalls
    /\ \E nd \in NDsFor(VectorResize(St, 0, VecHdr(St), n, NoND)) :
       \E t \in {VectorResize(St, 0, VecHdr(St), n, nd)} :
       /\ Commit(t)
       /\ held' = held
       /\ last' = [op |-> "VectorResize", xs |-> <<>>, pushes |-> FALSE,
                   moved |-> t.gen > 0, calls |-> last.calls + 1]

NextVec == VecPush \/ VecReserve \/ VecResize

SpecVec == InitVec /\ [][NextVec]_vars

\* C7: after every push of a sequence x_0 .. x_(n-1) pushed onto an
\* initially empty vector, VectorGet(v, i) = x_i for every i < n, on a fixed
\* region and on a moveable one that a push has grown, in either tier.
C7_PushGet ==
  (fault = "none" /\ last.pushes) =>
    \A i \in 1 .. Len(last.xs) : VectorGet(St, 0, VecHdr(St), i - 1) = last.xs[i]

\* the capacity in bytes of the block at a, decoded from its length word
Capacity(s, a) ==
  LET w == R(s, a - kSizeofU32)
      i == SmallBlockIndexFromEncodedSize(w)
  IN IF TopBit(w) THEN (IF i >= 0 THEN small_block_infos[i].size ELSE 0) ELSE w

\* C8: for a vector with data_offset # 0, after any sequence of VectorPush,
\* VectorReserve and VectorResize calls num_elements * sizeof(T) does not
\* exceed the capacity in bytes of its data block.
C8_Capacity ==
  (fault = "none" /\ R(St, VecHdr(St) + 4) # 0) =>
    R(St, VecHdr(St)) * kSizeofT
      <= Capacity(St, ToAddress(St, R(St, VecHdr(St) + 4)))

---------------------------------------------------------------------------
(* A moveable region: the client allocates, frees, reallocates and writes  *)
(* offsets into its blocks; an allocation that finds no free block calls   *)
(* the resizer, which may move the region.  last.arg is the block passed   *)
(* to the call, last.moved whether the call moved the region.              *)

MoveArenaUnits == 5     \* the arena, in 8-byte units
MaxMoveCalls == 5       \* calls in one history
MaxGrowths == 1         \* calls of one history that grow the region

MoveSize == kHeaderSize + kSizeofSizeT + 8 * MoveArenaUnits
MoveSizes == {8, 24}

InitMove ==
  \E s \in {NewBuffer(MoveSize, TRUE)} :
    /\ mem = s.mem
    /\ blocks = s.blocks
    /\ fault = s.fault
    /\ stale = s.stale
    /\ io = NoIO
    /\ held = {}
    /\ last = [op |-> "New", arg |-> 0, moved |-> FALSE, grown |-> 0, calls |-> 0]

MoveGuard ==
  /\ fault = "none"
  /\ last.calls < MaxMoveCalls
  /\ last.grown < MaxGrowths

MoveLast(op, arg, t) ==
  [op |-> op, arg |-> arg, moved |-> t.gen > 0,
   grown |-> last.grown + (IF full_size(t) # full_size(St) THEN 1 ELSE 0),
   calls |-> last.calls + 1]

MoveAllocate ==
  \E n \in MoveSizes :
    /\ MoveGuard
    /\ \E nd \in NDsFor(Allocate(St, n, 8, TRUE, FALSE, NoND).s) :
       \E r \in {Allocate(St, n, 8, TRUE, FALSE, nd)} :
       /\ Commit(r.s)
       /\ held' = IF r.p # 0 THEN held \cup {r.p} ELSE held
       /\ last' = MoveLast("Allocate", 0, r.s)

MoveFree ==
  \E p \in held :
    /\ MoveGuard
    /\ \E t \in {Free(St, p, 0, NoND)} :
       /\ Commit(t)
       /\ held' = held \ {p}
       /\ last' = MoveLast("Free", p, t)

MoveRealloc ==
  \E p \in held, n \in MoveSizes :
    /\ MoveGuard
    /\ \E nd \in NDsFor(Realloc(St, p, n, 8, TRUE, FALSE, NoND).s) :
       \E r \in {Realloc(St, p, n, 8, TRUE, FALSE, nd)} :
       /\ Commit(r.s)
       /\ held' = IF r.p # 0 THEN (held \ {p}) \cup {r.p} ELSE held
       /\ last' = MoveLast("Realloc", p, r.s)

MoveSet ==
  \E p \in held, q \in held :
    /\ MoveGuard
    /\ R(St, p) # q
    /\ \E t \in {Set(St, p, q)} :
       /\ Commit(t)
       /\ held' = held
       /\ last' = MoveLast("Set", p, t)

NextMove == MoveAllocate \/ MoveFree \/ MoveRealloc \/ MoveSet

SpecMove == InitMove /\ [][NextMove]_vars

MovePreserves ==
  (last'.moved /\ fault' = "none") =>
    \A p \in (held \cap held') \ {last'.arg} :
      \A w \in AllocWords(St, p) : InMem(St, w) => R(StNext, w) = R(St, w)

\* an Allocate call of the moveable region, all of which disable the
\* small-block path: the address it returns is that of a free-list block
NoSmallStep ==
  (last'.op = "Allocate" /\ fault' = "none") =>
    \A p \in held' \ held : ~TopBit(R(StNext, p - kSizeofU32))

\* C30: an Allocate call with enable_small_block = false returns no bitmap
\* slot: the length word before the returned address has bit 31 clear, for
\* every n, also when the call grew the moveable region and retried.
C30_NoSmall == [][NoSmallStep]_vars

\* C4: when an allocating call grows a moveable region and the resizer moves
\* it, every offset of a live allocation still resolves to the same payload
\* bytes in the new region and the length word of every live block that
\* existed before the call is unchanged.
C4_MovePreserves == [][MovePreserves]_vars

---------------------------------------------------------------------------
(* The client of both tiers: a fixed region, blocks requested with the     *)
(* default arguments (8-byte alignment, cleared, small-block path enabled),*)
(* freed and reallocated in any order.  The region either holds the runs   *)
(* of the two smallest size classes exactly, or the run of the smallest    *)
(* class and a few words more.  last.a0 is the address an Allocate         *)
(* returned that was freed by the next call; last.n is the size asked for. *)

SmallSlackWords == 4    \* free words of the tight region once class 0 is set up
MaxSmallHeld == 3       \* blocks the client holds at once
MaxSmallCalls == 6      \* calls in one history

\* bytes the first allocation of size class i takes from the free list: the
\* run vector's header, its data (8 offsets) and the run, each with its
\* length word
ClassBytes(i) ==
  (kSizeofVectorHeader + kSizeofU32) + (8 * kSizeofU32 + kSizeofU32)
    + (kSizeofBitMapRun
         + (small_block_infos[i].size + 4) * small_block_infos[i].num + kSizeofU32)

SmallRegionSizes ==
  {kHeaderSize + ClassBytes(0) + 4 * SmallSlackWords,
   kHeaderSize + ClassBytes(0) + ClassBytes(1)}

\* 10 and 30 as in the small-block tests, and the largest size of class 0
SmallSizes == {10, small_block_infos[0].size, 30}

InitSmall ==
  \E size \in SmallRegionSizes :
    \E s \in {NewBuffer(size, FALSE)} :
      /\ mem = s.mem
      /\ blocks = s.blocks
      /\ fault = s.fault
      /\ stale = s.stale
      /\ io = NoIO
      /\ held = {}
      /\ last = [op |-> "New", ret |-> 0, arg |-> 0, n |-> 0, a0 |-> 0, calls |-> 0]

SmallAllocate ==
  \E n \in SmallSizes :
    LET again == /\ last.op = "AllocateFree"
                 /\ SmallBlockIndex(n) = SmallBlockIndex(last.n)
    IN /\ fault = "none"
       /\ last.calls < MaxSmallCalls
       /\ Cardinality(held) < MaxSmallHeld
       /\ \E r \in {Allocate(St, n, 8, TRUE, TRUE, NoND)} :
          /\ Commit(r.s)
          /\ held' = IF r.p # 0 THEN held \cup {r.p} ELSE held
          /\ last' = [op |-> IF again THEN "AllocateFreeAllocate" ELSE "Allocate",
                      ret |-> r.p, arg |-> 0, n |-> n,
                      a0 |-> IF again THEN last.a0 ELSE 0,
                      calls |-> last.calls + 1]

SmallFree ==
  \E p \in held :
    LET undo == last.op \in {"Allocate", "AllocateFreeAllocate"} /\ last.ret = p
    IN /\ fault = "none"
       /\ last.calls < MaxSmallCalls
       /\ Commit(Free(St, p, 0, NoND))
       /\ held' = held \ {p}
       /\ last' = [op |-> IF undo THEN "AllocateFree" ELSE "Free", ret |-> 0,
                   arg |-> p, n |-> IF undo THEN last.n ELSE 0,
                   a0 |-> IF undo THEN p ELSE 0, calls |-> last.calls + 1]

SmallRealloc ==
  \E p \in held, n \in SmallSizes :
    /\ fault = "none"
    /\ last.calls < MaxSmallCalls
    /\ \E r \in {Realloc(St, p, n, 8, TRUE, TRUE, NoND)} :
       /\ Commit(r.s)
       /\ held' = IF r.p # 0 THEN (held \ {p}) \cup {r.p} ELSE held
       /\ last' = [op |-> "Realloc", ret |-> r.p, arg |-> p, n |-> n, a0 |-> 0,
                   calls |-> last.calls + 1]

NextSmall == SmallAllocate \/ SmallFree \/ SmallRealloc

SpecSmall == InitSmall /\ [][NextSmall]_vars

\* C11: when Allocate(n), n <= 128, returns the bitmap-tier address a and
\* Free(a) is the next allocator call, the next Allocate(m) with m in the
\* same size class returns the same address a.
C11_Reuse ==
  last.op = "AllocateFreeAllocate" => (fault = "none" /\ last.ret = last.a0)

\* the reused slot is not the lowest of its run: a lower slot is still held
C11_Witness ==
  /\ fault = "none"
  /\ last.op = "AllocateFreeAllocate"
  /\ last.ret = last.a0
  /\ last.ret # 0
  /\ \E q \in held : q < last.ret

\* the word before the bitmap-tier block at a decodes to the slot that holds
\* it: a size class with a run vector, a run of that vector whose bit is
\* set, and the address of that bit's slot is a
DecodesToSlot(s, a) ==
  LET w == R(s, a - kSizeofU32)
      i == SmallBlockIndexFromEncodedSize(w)
      hdr == ToAddress(s, R(s, kOffBitmaps + 4 * i))
      run == ToAddress(s, VectorGet(s, s.gen, hdr,
                          Field(w, kSmallBlockBitMapShift, kSmallBlockBitMapMask)))
      bit == Field(w, kSmallBlockBitNumShift, kSmallBlockBitNumMask)
  IN /\ i >= 0
     /\ hdr # 0
     /\ run # 0
     /\ TestBit(R(s, run), bit)
     /\ run + kSizeofBitMapRun + bit * (small_block_infos[i].size + 4) + 4 = a

\* C12: for every bitmap-tier slot in use, while it is live (also after a
\* Realloc that keeps it in its size class), the word before it decodes to
\* the size class, run and bit of the slot that holds it.
C12_Decodes ==
  fault = "none" => \A a \in held \ blocks : DecodesToSlot(St, a)

HwmStep ==
  fault' = "none" =>
    /\ UGe(hwm(StNext), hwm(St))
    /\ UGe(full_size(StNext), hwm(StNext))

\* C13: hwm never decreases across an Allocate, a Free, a Realloc or a
\* resize, and hwm <= full_size in every state.
C13_Hwm == UGe(full_size(St), hwm(St)) /\ [][HwmStep]_vars

\* C14: hwm is at least the end offset (payload offset + payload length) of
\* every live allocation, also of one that took a whole free block.
C14_HwmCovers ==
  fault = "none" =>
    \A p \in held : UGe(hwm(St), PAdd(ToOffset(St, p), R(St, p - kSizeofU32)))

\* C15: a live pointer handed out by the allocator converts to an offset and
\* back to itself (and offset 0 is the null pointer, the null pointer offset 0).
C15_RoundTrip ==
  (fault = "none" /\ IsValidMagic(St)) =>
    /\ \A p \in held : ToAddress(St, ToOffset(St, p)) = p
    /\ ToAddress(St, 0) = 0 /\ ToOffset(St, 0) = 0

---------------------------------------------------------------------------
(* The conversions between offsets and native addresses, for a region that *)
(* lives at native address base.  A native address is a 64-bit number, an  *)
(* offset a uint32.                                                        *)

\* an address check that accepts every address
AnyAddressAt(base, s, addr) == TRUE

\* IsValidAddress with size = 0: this <= addr < this + full_size
IsValidAddressAt(base, s, addr) == addr >= base /\ ULt(addr - base, full_size(s))

ToAddressAt(base, s, offset) ==
  IF offset = 0 THEN 0
  ELSE IF ~IsValidMagic(s) THEN 0
  ELSE IF ~IsValidAddressAt(base, s, base + offset) THEN 0
  ELSE base + offset

ToOffsetAt(base, s, addr) ==
  IF addr = base \/ addr = 0 THEN 0
  ELSE IF ~IsValidMagic(s) THEN 0
  ELSE IF ~IsValidAddressAt(base, s, addr) THEN 0
  ELSE addr - base

ConvBases == {4096, 65536}
ConvMagics == {kFixedBufferMagic, kMovableBufferMagic, 0, Junk}
ConvSizes == {64, 88}
ConvOffsets(s) ==
  {0, 1, kHeaderSize + 4, full_size(s) - 1, full_size(s), full_size(s) + 4}
ConvAddresses(base, s) ==
  {0, base - 4, base, base + 1, base + kHeaderSize + 4, base + full_size(s) - 1,
   base + full_size(s), base + full_size(s) + 4}

\* a region header at native address base; the conversions read only it
InitConv ==
  \E base \in ConvBases, magic \in ConvMagics, size \in ConvSizes :
    /\ mem = [i \in 0..(kHeaderSize \div 4 - 1) |->
                IF 4 * i = kOffMagic THEN magic
                ELSE IF 4 * i = kOffFullSize THEN size
                ELSE IF 4 * i = kOffHwm \/ 4 * i = kOffFreeList THEN kHeaderSize
                ELSE 0]
    /\ blocks = {}
    /\ held = {}
    /\ fault = "none"
    /\ stale = FALSE
    /\ io = NoIO
    /\ last = [op |-> "New", base |-> base, arg |-> 0, ret |-> 0]

ConvToAddress ==
  /\ last.op = "New"
  /\ \E offset \in ConvOffsets(St) :
       last' = [last EXCEPT !.op = "ToAddress", !.arg = offset,
                            !.ret = ToAddressAt(last.base, St, offset)]
  /\ UNCHANGED <<mem, blocks, held, fault, stale, io>>

ConvToOffset ==
  /\ last.op = "New"
  /\ \E addr \in ConvAddresses(last.base, St) :
       last' = [last EXCEPT !.op = "ToOffset", !.arg = addr,
                            !.ret = ToOffsetAt(last.base, St, addr)]
  /\ UNCHANGED <<mem, blocks, held, fault, stale, io>>

NextConv == ConvToAddress \/ ConvToOffset

SpecConv == InitConv /\ [][NextConv]_vars

MagicRecognised == mem[kOffMagic \div 4] \in {kFixedBufferMagic, kMovableBufferMagic}
InRegion(a) == last.base <= a /\ a < last.base + mem[kOffFullSize \div 4]

---------------------------------------------------------------------------
(* The first request on an empty fixed region, around the size of its      *)
(* arena.                                                                  *)

FitSpread == 8          \* requests range over arena - 4 +/- FitSpread bytes

FitRegionSizes == {kHeaderSize + 44, kHeaderSize + 48, kHeaderSize + 56, kHeaderSize + 144}
FitAlignments == {4, 8}

\* last.arena: the length of the single free block the region starts with
InitFit ==
  \E size \in FitRegionSizes :
    \E s \in {NewBuffer(size, FALSE)} :
      /\ mem = s.mem
      /\ blocks = s.blocks
      /\ fault = s.fault
      /\ stale = s.stale
      /\ io = NoIO
      /\ held = {}
      /\ last = [op |-> "New", ret |-> 0, n |-> 0, alignment |-> 0,
                 arena |-> R(s, free_list(s))]

FitAllocate ==
  \E alignment \in FitAlignments, esb \in BOOLEAN :
    \E n \in (last.arena - 4 - FitSpread) .. (last.arena - 4 + FitSpread) :
      /\ last.op = "New"
      /\ fault = "none"
      /\ esb => SmallBlockIndex(n) < 0
      /\ \E r \in {Allocate(St, n, alignment, TRUE, esb, NoND)} :
         /\ Commit(r.s)
         /\ held' = IF r.p # 0 THEN held \cup {r.p} ELSE held
         /\ last' = [last EXCEPT !.op = "Allocate", !.ret = r.p, !.n = n,
                                 !.alignment = alignment]

NextFit == FitAllocate

SpecFit == InitFit /\ [][NextFit]_vars

NullStep ==
  (/\ last'.op \in {"Allocate", "AllocateFreeAllocate", "Realloc"}
   /\ last'.calls = last.calls + 1
   /\ last'.ret = 0)
    => (fault' = "none" /\ mem' = mem /\ blocks' = blocks)

\* C18: an Allocate or Realloc that returns null on a fixed region has changed
\* nothing in the region (header fields, bitmap vectors and runs, free blocks,
\* live blocks) and has not left defined behaviour.
C18_NullNoEffect == [][NullStep]_vars

\* what the allocation of a VectorPush on the message's vector returns; p = -1
\* when the push needs none
PushAlloc(s, enable_small_block) ==
  LET hdr == VecHdr(s)
      num_elements == R(s, hdr)
      block == ToAddress(s, R(s, hdr + 4))
  IN IF R(s, hdr + 4) = 0
       THEN Allocate(s, 2 * kSizeofT, 8, TRUE, enable_small_block, NoND)
     ELSE IF R(s, block - 4) = Shl32(num_elements, 2)
       THEN Realloc(s, block, Shl32(num_elements, 3), 8, TRUE, enable_small_block,
                    NoND)
     ELSE [s |-> s, p |-> -1]

PushOomStep ==
  \A v \in VecValues, enable_small_block \in BOOLEAN :
    (/\ fault = "none"
     /\ last'.op = "VectorPush"
     /\ last'.calls = last.calls + 1
     /\ PushAlloc(St, enable_small_block).p = 0
     /\ PushAlloc(St, enable_small_block).s.fault = "none"
     /\ \E t \in {VectorPush(St, 0, VecHdr(St), v, enable_small_block, NoND)} :
          mem' = t.mem /\ fault' = t.fault)
      => (/\ fault' = "none"
          /\ R(StNext, VecHdr(St)) = R(St, VecHdr(St))
          /\ R(StNext, VecHdr(St) + 4) = R(St, VecHdr(St) + 4)
          /\ \A i \in 0 .. R(St, VecHdr(St)) - 1 :
               R(StNext, R(St, VecHdr(St) + 4) + kSizeofT * i)
                 = R(St, R(St, VecHdr(St) + 4) + kSizeofT * i))

\* C19: a VectorPush whose Allocate or Realloc returns null leaves the vector
\* as it was: num_elements and data keep their values, the elements are intact,
\* and nothing is written through the null result.
C19_PushOom == [][PushOomStep]_vars

---------------------------------------------------------------------------
(* Strings in a region with no room for the second size class: the main    *)
(* message is the two string header slots, the region ends StrOomSlackWords*)
(* words after what the construction takes.                                *)

StrOomSlackWords == 4

StrOomSize == kHeaderSize + kInitBytes + 4 * StrOomSlackWords

InitStrOom ==
  \E a \in {AllocateMainMessage(NewBuffer(StrOomSize, FALSE), kMessageSize, NoND)} :
    /\ mem = a.s.mem
    /\ blocks = a.s.blocks
    /\ fault = a.s.fault
    /\ stale = a.s.stale
    /\ io = NoIO
    /\ held = {a.p}
    /\ last = [op |-> "New", h |-> 0, str |-> <<>>, old |-> <<>>, calls |-> 0]

SpecStrOom == InitStrOom /\ [][NextStr]_vars

\* what the Realloc or Allocate of a SetString of len bytes on the slot
\* returns
StrAlloc(s, len, header_offset) ==
  LET hdr == ToAddress(s, header_offset)
      old_str == ToAddress(s, R(s, hdr))
  IN IF old_str # 0
       THEN Realloc(s, old_str, len + 4, 4, FALSE, TRUE, NoND)
       ELSE Allocate(s, len + 4, 4, FALSE, TRUE, NoND)

SetOomStep ==
  (/\ fault = "none"
   /\ last'.op = "SetString"
   /\ last'.calls = last.calls + 1
   /\ StrAlloc(St, Len(last'.str), last'.h).p = 0
   /\ StrAlloc(St, Len(last'.str), last'.h).s.fault = "none")
    => (/\ fault' = "none"
        /\ R(StNext, last'.h) = R(St, last'.h)
        /\ GetString(StNext, last'.h) = GetString(St, last'.h))

\* C20: a SetString whose Realloc or Allocate returns null leaves the string
\* header slot holding its prior offset and the prior string cell intact, and
\* writes nothing through the null result.
C20_SetOom == [][SetOomStep]_vars

---------------------------------------------------------------------------
(* Realloc of the null pointer, on an empty fixed region and on the region *)
(* such a call has left.  last.want is what Allocate returns for the same  *)
(* arguments from the same state.                                          *)

MaxNullCalls == 2       \* calls in one history

NullSizes == {8, 10, 30, 130}

InitNull ==
  \E size \in SmallRegionSizes :
    \E s \in {NewBuffer(size, FALSE)} :
      /\ mem = s.mem
      /\ blocks = s.blocks
      /\ fault = s.fault
      /\ stale = s.stale
      /\ io = NoIO
      /\ held = {}
      /\ last = [op |-> "New", ret |-> 0, n |-> 0, esb |-> TRUE, want |-> [p |-> 0],
                 calls |-> 0]

NullRealloc ==
  \E n \in NullSizes, alignment \in {4, 8}, clear \in BOOLEAN :
    \E enable_small_block \in BOOLEAN :
      /\ fault = "none"
      /\ last.calls < MaxNullCalls
      /\ \E r \in {Realloc(St, 0, n, alignment, clear, enable_small_block, NoND)} :
         \E a \in {Allocate(St, n, alignment, clear, enable_small_block, NoND)} :
         /\ Commit(r.s)
         /\ held' = IF r.p # 0 THEN held \cup {r.p} ELSE held
         /\ last' = [op |-> "Realloc", ret |-> r.p, n |-> n,
                     esb |-> enable_small_block,
                     want |-> [p |-> a.p, mem |-> a.s.mem, fault |-> a.s.fault],
                     calls |-> last.calls + 1]

NextNull == NullRealloc

SpecNull == InitNull /\ [][NextNull]_vars

\* C21: Realloc of the null pointer returns what Allocate returns for the same
\* arguments from the same state, and leaves the region as Allocate leaves it,
\* also with the small-block path disabled and n <= 128.
C21_ReallocNull ==
  last.op = "Realloc" =>
    (last.ret = last.want.p /\ mem = last.want.mem /\ fault = last.want.fault)

---------------------------------------------------------------------------
(* Presence bits: a bitmap in a block of 16 bytes of a fixed region; the   *)
(* client sets and clears bits of the bitmap at last.offset.               *)

MaxBitCalls == 3        \* calls in one history

SetPresenceBit(s, bit, offset) ==
  LET word == bit \div 32
      p == ToAddress(s, offset)
  IN IF p = 0 THEN Fault(s, "null")
     ELSE Let([s0 \in {Touch(s, p + 4 * word)} |->
            W(s0, p + 4 * word, SetBit(R(s0, p + 4 * word), bit % 32))])

ClearPresenceBit(s, bit, offset) ==
  LET word == bit \div 32
      p == ToAddress(s, offset)
  IN IF p = 0 THEN Fault(s, "null")
     ELSE Let([s0 \in {Touch(s, p + 4 * word)} |->
            W(s0, p + 4 * word, ClearBit(R(s0, p + 4 * word), bit % 32))])

\* 1 << b for an int and b >= 32 is undefined: the build yields the shift by
\* b % 32 (a shift instruction that masks its count) or 0
ShiftOutcomes == {"masked", "zero"}

\* IsPresent; "wild" when the read leaves the region
IsPresent(s, bit, offset, ub) ==
  LET word == bit \div 64
      b == bit % 64
      p == ToAddress(s, offset)
  IN IF p = 0 \/ ~InMem(s, p + 4 * word) THEN "wild"
     ELSE IF b < 32 THEN TestBit(R(s, p + 4 * word), b)
     ELSE IF ub = "masked" THEN TestBit(R(s, p + 4 * word), b % 32)
     ELSE FALSE

PresenceBits == {0, 1, 31, 32, 33, 63, 64, 65}
Presence(s, offset) ==
  [j \in PresenceBits |-> {IsPresent(s, j, offset, ub) : ub \in ShiftOutcomes}]

InitBits ==
  \E a \in {Allocate(NewBuffer(FixedSize, FALSE), 16, 8, TRUE, FALSE, NoND)} :
    \E offset \in {a.p, a.p + 4} :
      /\ mem = a.s.mem
      /\ blocks = a.s.blocks
      /\ fault = a.s.fault
      /\ stale = a.s.stale
      /\ io = NoIO
      /\ held = {a.p}
      /\ last = [op |-> "New", bit |-> 0, offset |-> offset,
                 was |-> Presence(a.s, offset), calls |-> 0]

BitsSet ==
  \E bit \in PresenceBits :
    /\ fault = "none"
    /\ last.calls < MaxBitCalls
    /\ Commit(SetPresenceBit(St, bit, last.offset))
    /\ held' = held
    /\ last' = [op |-> "SetPresenceBit", bit |-> bit, offset |-> last.offset,
                was |-> Presence(St, last.offset), calls |-> last.calls + 1]

BitsClear ==
  \E bit \in PresenceBits :
    /\ fault = "none"
    /\ last.calls < MaxBitCalls
    /\ Commit(ClearPresenceBit(St, bit, last.offset))
    /\ held' = held
    /\ last' = [op |-> "ClearPresenceBit", bit |-> bit, offset |-> last.offset,
                was |-> Presence(St, last.offset), calls |-> last.calls + 1]

NextBits == BitsSet \/ BitsClear

SpecBits == InitBits /\ [][NextBits]_vars

\* C22: after SetPresenceBit(k) IsPresent(k) is true, after
\* ClearPresenceBit(k) it is false, for k below and above 32, and IsPresent(j)
\* of every other bit j is what it was before the call.
C22_PresenceBits ==
  /\ last.op = "SetPresenceBit" =>
       (fault = "none" /\ Presence(St, last.offset)[last.bit] = {TRUE})
  /\ last.op = "ClearPresenceBit" =>
       (fault = "none" /\ Presence(St, last.offset)[last.bit] = {FALSE})
  /\ last.op # "New" =>
       \A j \in PresenceBits \ {last.bit} : Presence(St, last.offset)[j] = last.was[j]

\* C23: the length word of every live free-list block has bit 31 clear and is
\* a multiple of 8, whatever the request size and alignment and whether the
\* block was split off a free block or took a whole one; the length word of
\* every live bitmap-tier slot has bit 31 set.
C23_LengthWords ==
  fault = "none" =>
    /\ \A p \in blocks :
         ~TopBit(R(St, p - kSizeofU32)) /\ R(St, p - kSizeofU32) % 8 = 0
    /\ \A p \in held \ blocks : TopBit(R(St, p - kSizeofU32))

---------------------------------------------------------------------------
(* Pipe and FileDescriptor in coroutine mode.  One OS pipe of PipeCapacity *)
(* bytes, read through descriptor kReadFd and written through kWriteFd, by *)
(* the coroutines of one scheduler: a coroutine runs until it returns or   *)
(* suspends in Yield, Wait or PollAndWait, then the scheduler resumes any  *)
(* suspended coroutine.  io.class tells whether the coroutines call        *)
(* Pipe::Read / Pipe::Write on one Pipe object or FileDescriptor::Read /   *)
(* FileDescriptor::Write on the two descriptors.  Byte i of the buffer of  *)
(* Write call id is <<id, i>>.  Ghosts: io.wrote, every byte written to    *)
(* the pipe, in order; io.took, for every byte read from the pipe, in      *)
(* order, the call that read it.  A size_t that wrapped below 0 is kept as *)
(* a negative number.                                                      *)

PipeCapacity == 2       \* bytes the OS pipe holds
MaxIoCalls == 3         \* calls in one history
MaxSysErrs == 1         \* system calls that fail and waits that are interrupted

Coros == {1, 2, 3}
kReadFd == 3
kWriteFd == 4
kInterruptFd == 5       \* a descriptor other than the awaited one
IoLengths == {2, 3}     \* the buffer lengths of the calls

Min(a, b) == IF a < b THEN a ELSE b

\* the check of a wait's result that accepts every descriptor
NeverInterrupted(fd, awaited) == FALSE

\* fd != read_.Fd() / fd != write_.Fd() / fd != Fd()
Interrupted(fd, awaited) == fd # awaited

\* a scoped lock that is never seen taken
NotInProgress(x, op) == FALSE

\* pipe.read_in_progress_ / pipe.write_in_progress_
InProgress(x, op) == IF op = "Read" THEN x.read_in_progress_ ELSE x.write_in_progress_

Awaited(op) == IF op = "Read" THEN kReadFd ELSE kWriteFd

IdleCo ==
  [pc |-> "idle", op |-> "none", id |-> 0, length |-> 0, total |-> 0, n |-> 0,
   errno |-> "none", buf |-> <<>>, ret |-> [ok |-> TRUE, val |-> 0], intr |-> FALSE,
   after |-> 0]

\* the function returns: its StatusOr, and ~ScopedRead / ~ScopedWrite
Return(x, c, ok, val) ==
  LET y == [x EXCEPT !.co[c].pc = "done", !.co[c].ret = [ok |-> ok, val |-> val]]
  IN IF x.class # "Pipe" THEN y
     ELSE IF x.co[c].op = "Read" THEN [y EXCEPT !.read_in_progress_ = FALSE]
     ELSE [y EXCEPT !.write_in_progress_ = FALSE]

\* while (total < length): the wait at the top of the body, or return total
LoopTop(x, c) ==
  IF x.co[c].total >= 0 /\ x.co[c].total < x.co[c].length
    THEN [x EXCEPT !.co[c].pc = "wait1"]
    ELSE Return(x, c, TRUE, x.co[c].total)

\* total += n
AddTotal(x, c, n) == LoopTop([x EXCEPT !.co[c].total = @ + n], c)

\* what ::read / ::write can return here (a call that would block for ever
\* returns nothing); err tells whether a failure is still within MaxSysErrs.
\* read returns 0 at the end of file.
SysOutcomes(x, op, want, err) ==
  LET avail == IF op = "Read" THEN Len(x.chan) ELSE PipeCapacity - Len(x.chan)
  IN (IF avail > 0 THEN {[n |-> Min(avail, want), errno |-> "none"]} ELSE {})
       \cup (IF avail = 0 /\ x.nonblocking THEN {[n |-> -1, errno |-> "EAGAIN"]} ELSE {})
       \cup (IF err THEN {[n |-> -1, errno |-> "EINTR"], [n |-> -1, errno |-> "EIO"]}
                    ELSE {})
       \cup (IF err /\ op = "Read" /\ avail = 0 THEN {[n |-> 0, errno |-> "none"]} ELSE {})

\* the bytes move: n bytes from the pipe to buffer + total, or from
\* buffer + total to the pipe
Transfer(x, c, n) ==
  LET r == x.co[c]
  IN IF r.op = "Read"
       THEN [x EXCEPT !.chan = SubSeq(@, n + 1, Len(@)),
                      !.took = @ \o [i \in 1 .. n |-> r.id],
                      !.co[c].buf = [i \in 1 .. r.length |->
                                       IF i > r.total /\ i <= r.total + n
                                         THEN x.chan[i - r.total] ELSE @[i]]]
       ELSE [x EXCEPT !.chan = @ \o [i \in 1 .. n |-> <<r.id, r.total + i>>],
                      !.wrote = @ \o [i \in 1 .. n |-> <<r.id, r.total + i>>]]

\* Pipe::Read / Pipe::Write from the system call on, to the next suspension
\* or the return
PipeAfterSys(x, c, sys) ==
  IF sys.n = 0 THEN Return(x, c, FALSE, 0)
  ELSE IF sys.n = -1
    THEN IF sys.errno = "EINTR" THEN LoopTop(x, c)
         ELSE IF sys.errno = "EAGAIN" /\ x.nonblocking
           THEN [x EXCEPT !.co[c].pc = "wait2", !.co[c].n = sys.n]
         ELSE AddTotal(x, c, sys.n)
  ELSE AddTotal(Transfer(x, c, sys.n), c, sys.n)

\* FileDescriptor::Read / FileDescriptor::Write from the system call on
FdAfterSys(x, c, sys) ==
  IF sys.n = 0 THEN Return(x, c, TRUE, x.co[c].total)
  ELSE IF sys.n = -1
    THEN IF sys.errno = "EAGAIN"
           THEN IF ~x.nonblocking
                  THEN [x EXCEPT !.co[c].pc = "wait2", !.co[c].n = sys.n]
                  ELSE LoopTop(x, c)
         ELSE Return(x, c, FALSE, 0)
  ELSE AddTotal(Transfer(x, c, sys.n), c, sys.n)

\* the coroutine is resumed in the wait at the top of the loop body with
\* descriptor fd, and goes on to the system call, whose outcome is sys
AfterWait1(x, c, fd, sys) ==
  LET r == x.co[c]
  IN IF Interrupted(fd, Awaited(r.op)) THEN Return(x, c, FALSE, 0)
     ELSE Let([y \in {[x EXCEPT !.co[c].after = @ + (IF r.intr THEN 1 ELSE 0),
                                !.co[c].errno = sys.errno]} |->
            IF x.class = "Pipe" THEN PipeAfterSys(y, c, sys) ELSE FdAfterSys(y, c, sys)])

\* the coroutine is resumed in the wait that follows EAGAIN
AfterWait2(x, c, fd) ==
  LET r == x.co[c]
  IN IF Interrupted(fd, Awaited(r.op)) THEN Return(x, c, FALSE, 0)
     ELSE IF x.class = "Pipe" THEN AddTotal(x, c, r.n)
     ELSE LoopTop(x, c)

\* ScopedRead / ScopedWrite, then the loop
Enter(x, c) ==
  IF x.class = "Pipe" /\ InProgress(x, x.co[c].op) THEN [x EXCEPT !.co[c].pc = "lock"]
  ELSE IF x.class # "Pipe" THEN LoopTop(x, c)
  ELSE IF x.co[c].op = "Read" THEN LoopTop([x EXCEPT !.read_in_progress_ = TRUE], c)
  ELSE LoopTop([x EXCEPT !.write_in_progress_ = TRUE], c)

InitIo ==
  /\ mem = <<>>
  /\ blocks = {}
  /\ held = {}
  /\ fault = "none"
  /\ stale = FALSE
  /\ last = [op |-> "New", calls |-> 0]
  /\ \E class \in {"Pipe", "FileDescriptor"}, nonblocking \in BOOLEAN :
       io = [class |-> class, nonblocking |-> nonblocking, chan |-> <<>>,
             wrote |-> <<>>, took |-> <<>>, read_in_progress_ |-> FALSE,
             write_in_progress_ |-> FALSE, co |-> [c \in Coros |-> IdleCo],
             calls |-> 0, errs |-> 0]

IoFrame == UNCHANGED <<mem, blocks, held, fault, stale>>

\* a coroutine calls Read or Write with a buffer of length bytes (of the
\* coroutines that have not run yet, the first: they are interchangeable)
IoCall ==
  \E c \in Coros, op \in {"Read", "Write"}, length \in IoLengths :
    /\ io.co[c].pc \in {"idle", "done"}
    /\ io.co[c].pc = "idle" => \A d \in Coros : d < c => io.co[d].pc # "idle"
    /\ io.calls < MaxIoCalls
    /\ io' = Enter([io EXCEPT !.calls = @ + 1,
                              !.co[c] = [IdleCo EXCEPT !.op = op, !.id = io.calls + 1,
                                                       !.length = length,
                                                       !.buf = [i \in 1 .. length |-> <<0, 0>>]]],
                   c)
    /\ last' = [op |-> op, calls |-> io.calls + 1]
    /\ IoFrame

\* the scheduler resumes a coroutine that yielded in ScopedRead / ScopedWrite
IoYielded ==
  \E c \in Coros :
    /\ io.co[c].pc = "lock"
    /\ ~InProgress(io, io.co[c].op)
    /\ io' = Enter(io, c)
    /\ last' = [op |-> "Yield", calls |-> io.calls]
    /\ IoFrame

\* the scheduler resumes a coroutine out of Wait / PollAndWait: with the
\* awaited descriptor when it is ready (or, within MaxSysErrs, when it is
\* not), with another descriptor within MaxSysErrs
IoWaited ==
  \E c \in Coros :
    LET r == io.co[c]
        ready == IF r.op = "Read" THEN Len(io.chan) > 0
                                  ELSE Len(io.chan) < PipeCapacity
        err == io.errs < MaxSysErrs
    IN /\ r.pc \in {"wait1", "wait2"}
       /\ \/ /\ ready
             /\ r.pc = "wait1"
             /\ \E sys \in SysOutcomes(io, r.op, r.length - r.total, err) :
                  io' = AfterWait1([io EXCEPT !.errs = @ + (IF sys.errno \in {"EINTR", "EIO"}
                                                              THEN 1 ELSE 0)],
                                   c, Awaited(r.op), sys)
          \/ /\ ~ready /\ err
             /\ r.pc = "wait1"
             /\ \E sys \in SysOutcomes(io, r.op, r.length - r.total, TRUE) :
                  io' = AfterWait1([io EXCEPT !.errs = @ + 1], c, Awaited(r.op), sys)
          \/ /\ ready
             /\ r.pc = "wait2"
             /\ io' = AfterWait2(io, c, Awaited(r.op))
          \/ /\ err
             /\ io' = (IF r.pc = "wait1"
                         THEN AfterWait1([io EXCEPT !.errs = @ + 1, !.co[c].intr = TRUE],
                                         c, kInterruptFd,
                                         [n |-> 0, errno |-> "none"])
                         ELSE AfterWait2([io EXCEPT !.errs = @ + 1, !.co[c].intr = TRUE],
                                         c, kInterruptFd))
       /\ last' = [op |-> "Wait", calls |-> io.calls]
       /\ IoFrame

NextIo == IoCall \/ IoYielded \/ IoWaited

SpecIo == InitIo /\ [][NextIo]_vars

\* C24: a coroutine-mode Read or Write of Pipe or FileDescriptor whose wait
\* returned a descriptor other than the awaited one has returned an error
\* status and has made no read or write system call after that wait.
C24_Interrupted ==
  \A c \in Coros :
    io.co[c].intr =>
      (io.co[c].pc = "done" /\ ~io.co[c].ret.ok /\ io.co[c].after = 0)

C24_Witness ==
  \E c \in Coros :
    /\ io.co[c].intr
    /\ io.co[c].pc = "done"
    /\ ~io.co[c].ret.ok
    /\ io.co[c].total > 0
    /\ io.class = "FileDescriptor"

\* the entries of ids made by one call are next to one another
Contiguous(ids) ==
  \A i \in 1 .. Len(ids), k \in 1 .. Len(ids) :
    (i < k /\ ids[i] = ids[k]) => \A j \in i .. k : ids[j] = ids[i]

WrittenBy(id) == SelectSeq(io.wrote, LAMBDA b : b[1] = id)

TakenBy(id) ==
  LET pos == SelectSeq([k \in 1 .. Len(io.took) |-> k], LAMBDA k : io.took[k] = id)
  IN [i \in 1 .. Len(pos) |-> io.wrote[pos[i]]]

\* C28: a Pipe::Read or Pipe::Write that has returned an OK status returns
\* length, and has moved exactly the length bytes of its buffer, in order:
\* Write put bytes 1 .. length of its buffer into the pipe, Read filled its
\* buffer with the length bytes it took out of the pipe.
C28_OkMeansAll ==
  io.class = "Pipe" =>
    \A c \in Coros :
      LET r == io.co[c]
      IN (r.pc = "done" /\ r.ret.ok) =>
           /\ r.ret.val = r.length
           /\ r.op = "Write" => WrittenBy(r.id) = [i \in 1 .. r.length |-> <<r.id, i>>]
           /\ r.op = "Read" => TakenBy(r.id) = r.buf

---------------------------------------------------------------------------
(* FileDescriptor objects that share one OS fd.  io.objs[o] is object o:   *)
(* whether it exists and its data_ (0 for nullptr, 1 for the SharedData).  *)
(* io.use_count is the use count of the SharedData, io.fd its fd field,    *)
(* io.open whether the OS fd is open, io.closes how often it was closed,   *)
(* io.peak the largest use count so far.                                   *)

MaxFdCalls == 6         \* constructor, assignment, Close and destructor calls

FdObjs == {1, 2, 3}
kOsFd == 3              \* the OS fd the first FileDescriptor is made from

\* a reference that goes away without the use count being looked at
DropOnly(x, d) == IF d = 0 THEN x ELSE [x EXCEPT !.use_count = @ - 1]

\* std::shared_ptr: a new reference to the SharedData
Acquire(x, d) ==
  IF d = 0 THEN x
  ELSE [x EXCEPT !.use_count = @ + 1,
                 !.peak = IF x.use_count + 1 > @ THEN x.use_count + 1 ELSE @]

\* std::shared_ptr: a reference goes away; the last one runs ~SharedData
Release(x, d) ==
  IF d = 0 THEN x
  ELSE IF x.use_count > 1 THEN [x EXCEPT !.use_count = @ - 1]
  ELSE IF x.fd # -1
    THEN [x EXCEPT !.use_count = 0, !.open = FALSE, !.closes = @ + 1]
  ELSE [x EXCEPT !.use_count = 0]

InitFd ==
  /\ mem = <<>>
  /\ blocks = {}
  /\ held = {}
  /\ fault = "none"
  /\ stale = FALSE
  /\ last = [op |-> "New", calls |-> 0]
  /\ io = [objs |-> [o \in FdObjs |-> [exists |-> FALSE, data_ |-> 0]],
           made |-> FALSE, use_count |-> 0, fd |-> -1, open |-> TRUE, closes |-> 0,
           peak |-> 0]

FdDone(op, x) ==
  /\ last.calls < MaxFdCalls
  /\ io' = x
  /\ last' = [op |-> op, calls |-> last.calls + 1]
  /\ IoFrame

\* FileDescriptor() and FileDescriptor(int fd), the latter once
FdConstruct ==
  \E o \in FdObjs, withFd \in BOOLEAN :
    /\ ~io.objs[o].exists
    /\ withFd => ~io.made
    /\ FdDone("FileDescriptor",
              IF withFd
                THEN [io EXCEPT !.objs[o] = [exists |-> TRUE, data_ |-> 1],
                                !.made = TRUE, !.use_count = 1, !.fd = kOsFd,
                                !.peak = 1]
                ELSE [io EXCEPT !.objs[o] = [exists |-> TRUE, data_ |-> 0]])

\* FileDescriptor(const FileDescriptor &f)
FdCopy ==
  \E o \in FdObjs, f \in FdObjs :
    /\ ~io.objs[o].exists /\ io.objs[f].exists
    /\ FdDone("Copy",
              Acquire([io EXCEPT !.objs[o] = [exists |-> TRUE, data_ |-> io.objs[f].data_]],
                      io.objs[f].data_))

\* FileDescriptor(FileDescriptor &&f): data_(f.data_), then f.data_ = nullptr
FdMove ==
  \E o \in FdObjs, f \in FdObjs :
    /\ ~io.objs[o].exists /\ io.objs[f].exists
    /\ \E d \in {io.objs[f].data_} :
       FdDone("Move",
              Release([Acquire([io EXCEPT !.objs[o] = [exists |-> TRUE, data_ |-> d]], d)
                         EXCEPT !.objs[f].data_ = 0],
                      d))

\* operator=(const FileDescriptor &f): data_ = f.data_
FdAssign ==
  \E o \in FdObjs, f \in FdObjs :
    /\ io.objs[o].exists /\ io.objs[f].exists
    /\ \E d \in {io.objs[f].data_}, old \in {io.objs[o].data_} :
       FdDone("Assign", Release([Acquire(io, d) EXCEPT !.objs[o].data_ = d], old))

\* operator=(FileDescriptor &&f): data_ = std::move(f.data_)
FdMoveAssign ==
  \E o \in FdObjs, f \in FdObjs :
    /\ io.objs[o].exists /\ io.objs[f].exists
    /\ \E d \in {io.objs[f].data_}, old \in {io.objs[o].data_} :
       FdDone("MoveAssign",
              IF o = f THEN io
              ELSE Release([io EXCEPT !.objs[f].data_ = 0, !.objs[o].data_ = d], old))

\* Close() and Reset(): data_.reset()
FdClose ==
  \E o \in FdObjs :
    /\ io.objs[o].exists
    /\ FdDone("Close", Release([io EXCEPT !.objs[o].data_ = 0], io.objs[o].data_))

\* ~FileDescriptor(): Close()
FdDestroy ==
  \E o \in FdObjs :
    /\ io.objs[o].exists
    /\ FdDone("Destroy",
              Release([io EXCEPT !.objs[o] = [exists |-> FALSE, data_ |-> 0]],
                      io.objs[o].data_))

NextFd ==
  FdConstruct \/ FdCopy \/ FdMove \/ FdAssign \/ FdMoveAssign \/ FdClose \/ FdDestroy

SpecFd == InitFd /\ [][NextFd]_vars

FdRefs == {o \in FdObjs : io.objs[o].exists /\ io.objs[o].data_ # 0}

\* C25: through copies, moves, assignments, Close / Reset and destruction of
\* the FileDescriptors that share an OS fd, the fd is open as long as one of
\* them refers to it, and has been closed, once, when none does.
C25_LastClose ==
  io.made =>
    /\ io.use_count = Cardinality(FdRefs)
    /\ io.open <=> FdRefs # {}
    /\ io.closes = IF FdRefs = {} THEN 1 ELSE 0

C25_Witness ==
  /\ io.made
  /\ io.peak >= 2
  /\ FdRefs = {}
  /\ ~io.open
  /\ io.closes = 1
  /\ last.op = "Destroy"

---------------------------------------------------------------------------
(* SharedPtrPipe<T> carrying pointers to one object.  io.use_count is the  *)
(* object's use count, io.holders the shared_ptrs the callers hold,        *)
(* io.chan the pointer images lying in the OS pipe, io.w and io.r the      *)
(* Write and the Read call in progress, io.wild whether a Read has used a  *)
(* buffer that no read filled.                                             *)

SpCapacity == 2         \* pointer images the OS pipe holds
MaxSpCalls == 3         \* Write, Read and drop calls in one history
kPtrBytes == 16         \* sizeof(std::shared_ptr<T>)

SpIdle == [pc |-> "idle", total |-> 0, n |-> 0]

\* Write returns: ~ScopedReference resets the pointer in the buffer unless
\* buffer_ was cleared, and the parameter p goes away
SpWriteReturn(x, ok, cleared) ==
  [x EXCEPT !.w = SpIdle, !.wret = ok,
            !.use_count = @ - 1 - (IF cleared THEN 0 ELSE 1)]

\* Read returns an error
SpReadError(x) == [x EXCEPT !.r = SpIdle, !.rret = FALSE]

\* where a call blocks next: Wait / PollAndWait with a coroutine, the system
\* call without
SpBlock(x, role) ==
  [x EXCEPT ![role].pc = IF x.coroutine THEN "wait1" ELSE "sys"]

\* Write: while (total < length) ...; sr.buffer_ = nullptr; return OkStatus()
SpWriteLoop(x) ==
  IF x.w.total >= 0 /\ x.w.total < kPtrBytes THEN SpBlock(x, "w")
  ELSE SpWriteReturn(x, TRUE, TRUE)

\* Read: while (total < length) ...; copy = *buffer; p->reset(); return copy
SpReadLoop(x) ==
  IF x.r.total >= 0 /\ x.r.total < kPtrBytes THEN SpBlock(x, "r")
  ELSE IF x.r.total = kPtrBytes
    THEN [x EXCEPT !.r = SpIdle, !.rret = TRUE, !.holders = @ + 1]
  ELSE [x EXCEPT !.r = SpIdle, !.rret = TRUE, !.wild = TRUE]

SpLoop(x, role) == IF role = "w" THEN SpWriteLoop(x) ELSE SpReadLoop(x)

SpError(x, role) == IF role = "w" THEN SpWriteReturn(x, FALSE, FALSE) ELSE SpReadError(x)

\* what ::read / ::write of one pointer image can return
SpSysOutcomes(x, role, err) ==
  LET avail == IF role = "r" THEN x.chan > 0 ELSE x.chan < SpCapacity
  IN (IF avail THEN {[n |-> kPtrBytes, errno |-> "none"]} ELSE {})
       \cup (IF ~avail /\ x.nonblocking THEN {[n |-> -1, errno |-> "EAGAIN"]} ELSE {})
       \cup (IF err THEN {[n |-> -1, errno |-> "EINTR"], [n |-> -1, errno |-> "EIO"]}
                    ELSE {})
       \cup (IF err /\ role = "r" /\ ~avail THEN {[n |-> 0, errno |-> "none"]} ELSE {})

\* the loop body from the system call on, to the next block or the return
SpAfterSys(x, role, sys) ==
  IF sys.n = 0 THEN SpError(x, role)
  ELSE IF sys.n = -1
    THEN IF sys.errno = "EINTR" THEN SpLoop(x, role)
         ELSE IF sys.errno = "EAGAIN" /\ ~x.coroutine THEN SpError(x, role)
         ELSE IF sys.errno = "EAGAIN" /\ x.nonblocking
           THEN [x EXCEPT ![role].pc = "wait2", ![role].n = sys.n]
         ELSE SpLoop([x EXCEPT ![role].total = @ + sys.n], role)
  ELSE SpLoop([x EXCEPT ![role].total = @ + sys.n,
                        !.chan = IF role = "w" THEN @ + 1 ELSE @ - 1,
                        !.sent = @ + (IF role = "w" THEN 1 ELSE 0)],
              role)

InitSp ==
  /\ mem = <<>>
  /\ blocks = {}
  /\ held = {}
  /\ fault = "none"
  /\ stale = FALSE
  /\ last = [op |-> "New", calls |-> 0]
  /\ \E coroutine \in BOOLEAN, nonblocking \in BOOLEAN, N \in {1, 2} :
       io = [coroutine |-> coroutine, nonblocking |-> nonblocking, chan |-> 0,
             sent |-> 0, use_count |-> N, holders |-> N, w |-> SpIdle, r |-> SpIdle,
             wret |-> TRUE, rret |-> TRUE, wild |-> FALSE, calls |-> 0, errs |-> 0]

\* Write(p): the parameter and the pointer constructed in the buffer are two
\* more references
SpWrite ==
  /\ io.w.pc = "idle" /\ ~io.wild
  /\ io.calls < MaxSpCalls
  /\ io' = SpWriteLoop([io EXCEPT !.calls = @ + 1, !.use_count = @ + 2])
  /\ last' = [op |-> "Write", calls |-> io.calls + 1]
  /\ IoFrame

\* Read()
SpRead ==
  /\ io.r.pc = "idle" /\ ~io.wild
  /\ io.calls < MaxSpCalls
  /\ io' = SpReadLoop([io EXCEPT !.calls = @ + 1])
  /\ last' = [op |-> "Read", calls |-> io.calls + 1]
  /\ IoFrame

\* a caller lets go of a pointer it holds, but not of the last one
SpDrop ==
  /\ io.holders > 1 /\ ~io.wild
  /\ io.calls < MaxSpCalls
  /\ io' = [io EXCEPT !.calls = @ + 1, !.holders = @ - 1, !.use_count = @ - 1]
  /\ last' = [op |-> "Drop", calls |-> io.calls + 1]
  /\ IoFrame

\* a call goes on from where it blocked
SpResume ==
  \E role \in {"w", "r"} :
    LET c == io[role]
        ready == IF role = "r" THEN io.chan > 0 ELSE io.chan < SpCapacity
        err == io.errs < MaxSysErrs
    IN /\ c.pc \in {"wait1", "sys", "wait2"}
       /\ ~io.wild
       /\ \/ /\ c.pc \in {"wait1", "sys"}
             /\ ready \/ c.pc = "sys" \/ err
             /\ \E sys \in SpSysOutcomes(io, role, err) :
                  io' = SpAfterSys([io EXCEPT !.errs = @ + (IF sys.errno \in {"EINTR", "EIO"}
                                                              \/ (~ready /\ c.pc = "wait1")
                                                              THEN 1 ELSE 0)],
                                   role, sys)
          \/ /\ c.pc = "wait2"
             /\ ready
             /\ io' = SpLoop([io EXCEPT ![role].total = @ + c.n], role)
          \/ /\ c.pc \in {"wait1", "wait2"}
             /\ err
             /\ io' = SpError([io EXCEPT !.errs = @ + 1], role)
       /\ last' = [op |-> "Resume", calls |-> io.calls]
       /\ IoFrame

NextSp == SpWrite \/ SpRead \/ SpDrop \/ SpResume

SpecSp == InitSp /\ [][NextSp]_vars

\* C26: between calls, the use count of the object is the number of pointers
\* the callers hold plus one for each pointer in transit in the pipe: a
\* Write that returns OK has put one reference into the pipe, a Write that
\* fails has added none, and a Read moves one from the pipe to the receiver.
C26_InTransit ==
  (io.w.pc = "idle" /\ io.r.pc = "idle" /\ ~io.wild) =>
    io.use_count = io.holders + io.chan

---------------------------------------------------------------------------
(* Native pointers across a relocation.                                    *)

\* C31: no operation of the library reads or writes through a native
\* pointer into a region that an inner allocating call has abandoned: every
\* access after a relocation goes through an address derived from an offset
\* in the new region.
C31_NoStale == ~stale

---------------------------------------------------------------------------
(* Realloc and the payload.                                                *)

\* the payload length of the block at a: the length word, or the size
\* encoded in it for a bitmap slot
PayloadLength(s, a) ==
  LET w == R(s, a - kSizeofU32)
  IN IF TopBit(w) THEN Field(w, 0, kSmallBlockSizeMask) ELSE w

\* the words of the first n bytes of the payload at a
PayloadWords(a, n) == {a + 4 * k : k \in 0 .. ((n + 3) \div 4) - 1}

ReallocKeeps ==
  (last'.op = "Realloc" /\ last'.ret # 0 /\ fault' = "none") =>
    LET L == PayloadLength(St, last'.arg)
        k == IF L < last'.n THEN L ELSE last'.n
    IN /\ \A w \in PayloadWords(0, k) :
            R(StNext, last'.ret + w) = R(St, last'.arg + w)
       /\ \A o \in held \ {last'.arg} :
            \A w \in AllocWords(St, o) : R(StNext, w) = R(St, w)

\* C32: a Realloc(p, n) of a live block with payload length L that returns
\* q # 0 leaves the first min(L, n) payload bytes at q equal to those at p
\* before the call, and writes no byte of another live block.
C32_ReallocKeeps == [][ReallocKeeps]_vars

---------------------------------------------------------------------------
(* Growth of a moveable region whose resizer always delivers a new region  *)
(* of the size asked for, at a new address.  last.old is full_size before  *)
(* the call, last.full_length the aligned size + 4 of the request,         *)
(* last.sizes the sizes of the regions the call went through: the regions  *)
(* it abandoned, then the one it ended in.                                 *)

GrowArenaUnits == 5     \* the smallest arena, in 8-byte units
MaxGrowCalls == 3       \* calls in one history

GrowRegionSizes ==
  {kHeaderSize + kSizeofSizeT + 8 * GrowArenaUnits,
   kHeaderSize + kSizeofSizeT + 8 * (GrowArenaUnits + 3)}
GrowSizes == {24, 40, 136, 200}

InitGrow ==
  \E size \in GrowRegionSizes :
    \E s \in {NewBuffer(size, TRUE)} :
      /\ mem = s.mem
      /\ blocks = s.blocks
      /\ fault = s.fault
      /\ stale = s.stale
      /\ io = NoIO
      /\ held = {}
      /\ last = [op |-> "New", ret |-> 0, old |-> 0, full_length |-> 0,
                 sizes |-> <<>>, calls |-> 0]

\* the resizers of this region: all of them move it
GrowNDs(t) ==
  IF full_size(t) # full_size(St) THEN {nd \in NDs : nd.move} ELSE {NoND}

SizesOf(t) == [i \in 1 .. Len(t.snaps) |-> 4 * Fuel([mem |-> t.snaps[i]])] \o <<4 * Fuel(t)>>

GrowAllocate ==
  \E n \in GrowSizes :
    /\ fault = "none"
    /\ last.calls < MaxGrowCalls
    /\ \E nd \in GrowNDs(Allocate(St, n, 8, TRUE, FALSE, NoND).s) :
       \E r \in {Allocate(St, n, 8, TRUE, FALSE, nd)} :
       /\ r.s.fault # "cap"
       /\ Commit(r.s)
       /\ held' = IF r.p # 0 THEN held \cup {r.p} ELSE held
       /\ last' = [op |-> "Allocate", ret |-> r.p, old |-> full_size(St),
                   full_length |-> AlignSize(n, 8) + kSizeofU32,
                   sizes |-> SizesOf(r.s), calls |-> last.calls + 1]

GrowFree ==
  \E p \in held :
    /\ fault = "none"
    /\ last.calls < MaxGrowCalls
    /\ \E t \in {Free(St, p, 0, NoND)} :
       /\ Commit(t)
       /\ held' = held \ {p}
       /\ last' = [op |-> "Free", ret |-> 0, old |-> full_size(St), full_length |-> 0,
                   sizes |-> SizesOf(t), calls |-> last.calls + 1]

NextGrow == GrowAllocate \/ GrowFree

SpecGrow == InitGrow /\ [][NextGrow]_vars

Grew == last.op = "Allocate" /\ Len(last.sizes) >= 2

\* C33 as stated: the resizer is called with old_size = full_size and
\* new_size = max(2 * old_size, old_size + required_full_length).
C33_Max ==
  Grew =>
    /\ last.sizes[1] = last.old
    /\ last.sizes[2] = IF 2 * last.old >= last.old + last.full_length
                         THEN 2 * last.old ELSE last.old + last.full_length

MaxDoublings == 5

\* C33: when an Allocate exhausts a moveable region, the resizer is called
\* with old_size = full_size and new_size = the first of 2 * old_size,
\* 4 * old_size, 8 * old_size ... that is at least required_full_length,
\* and full_size is the size of the region the call ends in.
C33_Doubling ==
  Grew =>
    /\ last.sizes[1] = last.old
    /\ \E k \in 1 .. MaxDoublings :
         /\ last.sizes[2] = last.old * Pow2(k)
         /\ last.sizes[2] >= last.full_length
         /\ k > 1 => last.old * Pow2(k - 1) < last.full_length
    /\ fault = "none" => full_size(St) = last.sizes[Len(last.sizes)]

C33_Witness ==
  /\ Grew
  /\ fault = "none"
  /\ last.ret # 0
  /\ last.full_length > 2 * last.old
  /\ last.sizes[2] = 4 * last.old

\* C34: on a moveable region whose resizer delivers every region asked for,
\* an Allocate(n), n > 0, returns a non-null address after a bounded number
\* of resizer calls (each call at least doubles the region).
C34_Returns ==
  last.op = "Allocate" =>
    /\ fault = "none"
    /\ last.ret # 0
    /\ Len(last.sizes) - 1 <= MaxDoublings

---------------------------------------------------------------------------
(* The block Allocate takes from the free list.                            *)

\* q without its i-th entry
Without(q, i) == [j \in 1 .. Len(q) - 1 |-> IF j < i THEN q[j] ELSE q[j + 1]]

\* the outcome the selected free block i of the list fl0 allows for a
\* request of full bytes: split, or taken whole
Taken(fl0, i, full, ret, word, fl) ==
  LET off == fl0[i][1]
      L == fl0[i][2]
  IN /\ ret = off + kSizeofU32
     /\ IF L - full >= 2 * kSizeofU32
          THEN /\ word = full - kSizeofU32
               /\ fl = [fl0 EXCEPT ![i] = <<off + full, L - full>>]
          ELSE /\ word = L - kSizeofU32
               /\ fl = Without(fl0, i)

TakeStep ==
  (last'.op = "Allocate" /\ last'.ret # 0 /\ fault' = "none") =>
    \E n \in CoreSizes :
      LET full == AlignSize(n, 8) + kSizeofU32
          fl0 == FreeListOf(St)
          fits == {i \in DOMAIN fl0 : fl0[i][2] >= full}
      IN /\ fits # {}
         /\ Taken(fl0, CHOOSE i \in fits : \A j \in fits : i <= j, full, last'.ret,
                  R(StNext, last'.ret - kSizeofU32), FreeListOf(StNext))

---------------------------------------------------------------------------
(* The runs of one size class.  A fixed region with room for two runs of   *)
(* the largest class (four slots each); the client allocates and frees     *)
(* blocks of that class.                                                   *)

MaxRunsHeld == 6        \* blocks the client holds at once
MaxRunsCalls == 8       \* calls in one history

RunsClass == kNumSmallBlocks - 1
RunsRegionSize == kHeaderSize + 2 * ClassBytes(RunsClass)
RunsSizes == {100, small_block_infos[RunsClass].size}

InitRuns ==
  \E s \in {NewBuffer(RunsRegionSize, FALSE)} :
    /\ mem = s.mem
    /\ blocks = s.blocks
    /\ fault = s.fault
    /\ stale = s.stale
    /\ io = NoIO
    /\ held = {}
    /\ last = [op |-> "New", ret |-> 0, n |-> 0, calls |-> 0]

RunsAllocate ==
  \E n \in RunsSizes :
    /\ fault = "none"
    /\ last.calls < MaxRunsCalls
    /\ Cardinality(held) < MaxRunsHeld
    /\ \E r \in {Allocate(St, n, 8, TRUE, TRUE, NoND)} :
       /\ Commit(r.s)
       /\ held' = IF r.p # 0 THEN held \cup {r.p} ELSE held
       /\ last' = [op |-> "Allocate", ret |-> r.p, n |-> n, calls |-> last.calls + 1]

RunsFree ==
  \E p \in held :
    /\ fault = "none"
    /\ last.calls < MaxRunsCalls
    /\ Commit(Free(St, p, 0, NoND))
    /\ held' = held \ {p}
    /\ last' = [op |-> "Free", ret |-> 0, n |-> 0, calls |-> last.calls + 1]

NextRuns == RunsAllocate \/ RunsFree

SpecRuns == InitRuns /\ [][NextRuns]_vars

\* the number of runs of class c, and the k-th of them, oldest first
RunCount(s, c) ==
  IF R(s, kOffBitmaps + 4 * c) = 0 THEN 0
  ELSE R(s, ToAddress(s, R(s, kOffBitmaps + 4 * c)))

RunAt(s, c, k) ==
  ToAddress(s, VectorGet(s, s.gen, ToAddress(s, R(s, kOffBitmaps + 4 * c)), k))

LowestClear(bits) ==
  CHOOSE b \in 0 .. 32 :
    /\ \A a \in 0 .. b - 1 : TestBit(bits, a)
    /\ b < 32 => ~TestBit(bits, b)

SlotAddress(run, c, bit) ==
  run + kSizeofBitMapRun + bit * (small_block_infos[c].size + 4) + 4

RunsStep ==
  (last'.op = "Allocate" /\ last'.ret # 0 /\ fault' = "none") =>
    LET c == SmallBlockIndex(last'.n)
        cnt == RunCount(St, c)
        avail == {k \in 0 .. cnt - 1 : RunFree(R(St, RunAt(St, c, k) + 4)) > 0}
    IN IF avail # {}
         THEN LET k == CHOOSE x \in avail : \A y \in avail : y <= x
                  run == RunAt(St, c, k)
                  bit == LowestClear(R(St, run))
              IN /\ last'.ret = SlotAddress(run, c, bit)
                 /\ R(StNext, run) = SetBit(R(St, run), bit)
                 /\ RunFree(R(StNext, run + 4)) = RunFree(R(St, run + 4)) - 1
                 /\ RunCount(StNext, c) = cnt
         ELSE LET run == RunAt(StNext, c, cnt)
              IN /\ RunCount(StNext, c) = cnt + 1
                 /\ last'.ret = SlotAddress(run, c, 0)
                 /\ R(StNext, run) = 1
                 /\ RunFree(R(StNext, run + 4)) = small_block_infos[c].num - 1

---------------------------------------------------------------------------
(* The blocks of the free list.                                            *)

\* C37: after any sequence of Allocate, Free and Realloc calls every block
\* on the free list has room for its own header (length >= 8) and lies
\* inside the region (offset + length <= full_size).
C37_FreeBlocks ==
  fault = "none" =>
    LET fl == FreeListOf(St)
    IN \A i \in DOMAIN fl :
         /\ fl[i][2] >= 2 * kSizeofU32
         /\ fl[i][1] + fl[i][2] <= full_size(St)

---------------------------------------------------------------------------
(* The bitmap of a run against the slots that are in use.                  *)

\* the bits set in the run's bitmap
RunBits(s, run) == {b \in 0 .. 31 : TestBit(R(s, run), b)}

\* the slots of the run whose address a caller holds
SlotsHeld(run, c) ==
  {b \in 0 .. small_block_infos[c].num - 1 :
     SlotAddress(run, c, b) \in held \ blocks}

RunConsistent(s, run, c) ==
  LET w == R(s, run + 4)
  IN /\ RunNum(w) = small_block_infos[c].num
     /\ RunFree(w) = RunNum(w) - Cardinality(RunBits(s, run))
     /\ \A b \in RunBits(s, run) : b < RunNum(w)
     /\ RunBits(s, run) = SlotsHeld(run, c)

\* C38: in every reachable state, for every bitmap run, free equals num
\* minus the number of set bits, no bit at a position >= num is set, and
\* the set bits are exactly the slots held by live allocations.
C38_Runs ==
  fault = "none" =>
    \A c \in 0 .. kNumSmallBlocks - 1 :
      \A k \in 0 .. RunCount(St, c) - 1 :
        RunConsistent(St, RunAt(St, c, k), c)

---------------------------------------------------------------------------
(* FileDescriptor with ForceClose and Release.  io is as in SpecFd, with   *)
(* io.released: Release was called on a holder of the SharedData, and      *)
(* io.kept: the value of io.closes at that call.                           *)

InitForce ==
  /\ mem = <<>>
  /\ blocks = {}
  /\ held = {}
  /\ fault = "none"
  /\ stale = FALSE
  /\ last = [op |-> "New", calls |-> 0]
  /\ io = [objs |-> [o \in FdObjs |-> [exists |-> FALSE, data_ |-> 0]],
           made |-> FALSE, use_count |-> 0, fd |-> -1, open |-> TRUE, closes |-> 0,
           peak |-> 0, released |-> FALSE, kept |-> 0]

\* ForceClose(): nothing for a null data_; with data_->fd != -1, close(fd)
\* and then data_.reset(); data_->fd keeps its value
FdForceClose ==
  \E o \in FdObjs :
    /\ io.objs[o].exists
    /\ FdDone("ForceClose",
              IF io.objs[o].data_ = 0 \/ io.fd = -1 THEN io
              ELSE Release([io EXCEPT !.open = FALSE, !.closes = @ + 1,
                                      !.objs[o].data_ = 0],
                           io.objs[o].data_))

\* Release(): data_->fd = -1 for a non-null data_, then data_.reset()
FdRelease ==
  \E o \in FdObjs :
    /\ io.objs[o].exists
    /\ FdDone("Release",
              IF io.objs[o].data_ = 0 THEN io
              ELSE Release([io EXCEPT !.fd = -1, !.objs[o].data_ = 0,
                                      !.released = TRUE, !.kept = io.closes],
                           io.objs[o].data_))

NextForce == NextFd \/ FdForceClose \/ FdRelease

SpecForce == InitForce /\ [][NextForce]_vars

\* C39: across any sequence of FileDescriptor operations, ForceClose and
\* Release included, the OS close is invoked at most once for the fd the
\* wrapper owns, and not at all once Release was called.
C39_CloseOnce ==
  /\ io.closes <= 1
  /\ io.released => io.closes = io.kept

====
